---- MODULE Spec2Model ----
(***************************************************************************)
(* Verification model of the instruction-encoding framework:               *)
(*   - src/src/asahi/isa: the table-driven decoder (isa.py, test/disasm.py) *)
(*   - src/src/imagination/pco: bit sets, bit structs, enum maps and        *)
(*     encode maps (pco_pygen_common.py, pco_map.py, pco_isa.h.py)          *)
(*                                                                         *)
(* Python integers have arbitrary precision.  A non-negative Python        *)
(* integer is modelled by its binary expansion: the finite set of the       *)
(* positions of its 1 bits.  x & y is intersection, x | y is union,         *)
(* x & ~y is set difference, (1 << n) - 1 is 0..n-1.                        *)
(***************************************************************************)
EXTENDS Integers, Sequences, FiniteSets, TLC

VARIABLES
    instrs,     \* isa.instrs: the instruction table, in insertion order
    prog,       \* the program bytes read by the disassembly loop
    i,          \* the byte offset of the disassembly loop
    pc,         \* position of the disassembly loop
    last,       \* the (length, asm) of the last disasm call, with its warning
    the_set,       \* bit_struct: the name of the bit set the struct is built from
    field_mappings,       \* bit_struct: the field_mappings argument
    bs,         \* bit_struct: its result
    values,         \* the struct values handed to the pack routine
    buf,        \* the byte buffer the pack routine writes
    ret,        \* the pack routine's return value
    pcB,        \* position in the build-then-pack sequence
    instr_op,   \* the operation of the instruction being encoded
    instr_mods, \* its source 0 reference modifiers
    variant,    \* the encoding variant selected for it (0: none yet)
    encoded,    \* the bytes it is encoded to
    decoded,    \* the operation and modifiers decoded from those bytes
    pcE,        \* position in the select, encode, decode sequence
    emap,       \* enum_map: its arguments and its result
    mapped,     \* the value given to the generated mapping and its result
    pcM,        \* position in the declare-then-map sequence
    case_lines, \* test-disasm.py: the case lines read so far
    new_cases,  \* the lines the harness rendered for them
    errors,     \* its errors flag
    argv2,      \* sys.argv[2] ("" when absent), once it has been read
    written,    \* whether the expectations file has been rewritten
    exit_code,  \* the exit code of the harness (-1 while it runs)
    pcT,        \* position in the harness
    elements_sorted,  \* MargeQueue.elements_sorted: assigned_at -> merge request
    undetermined,     \* MargeQueue.undetermined
    appended,         \* the merge requests append was called with, in order
    types,      \* pco_pygen_common.types: name -> Type
    enums,      \* pco_pygen_common.enums: name -> EnumType
    made,       \* the last declaration: its arguments and how it ended
    op_encodings,  \* encode_map: its encodings argument
    encode_maps,   \* pco_map.encode_maps: the mapping the call has stored
    pcA,           \* position of the encode_map call
    the_bits,   \* Bits.ranges of the field under test
    word,       \* the raw word x given to Bits.extract
    accum,      \* the result of Bits.extract
    mask_out,   \* the result of Bits.mask, or its failed assertion
    the_exact,  \* an Exact: its mask and value
    merged,     \* the Exacts united into it, in order
    pcX,        \* position in the extract-then-mask sequence
    gm,            \* the arguments of a group_map call and the builder's mods
    hdr_mappings,  \* the header statements group_map emitted
    igrp_hdr,      \* the header of the instruction group being filled
    instr_op_mods, \* the op modifiers of the instruction being grouped
    pcG,           \* 0 before group_map, the index of the next statement
                   \* after it, -1 without a mapping (none asked for, or
                   \* group_map raised)
    sel_op,        \* the op of the instruction whose variant is selected
    sel_vals,      \* its modifier and operand values, by name
    sel_variant,   \* 0 before the selection, then the variant's position
    the_type,      \* the field type a value is encoded with
    ft_val,        \* the value, as the set of its set bit positions
    ft_enc,        \* enc_val, as the set of its set bit positions
    pcF,           \* "new", "check", "validate" (failed assertions), "encoded"
    readers,       \* AsyncRWLock.readers
    global_lock,   \* AsyncRWLock.global_lock: locked, waiters, first one woken
    read_lock,     \* AsyncRWLock.read_lock: the same
    tpc            \* where each task is

disVars == <<instrs, prog, i, pc, last>>

bsVars == <<the_set, field_mappings, bs, values, buf, ret, pcB>>

encVars == <<instr_op, instr_mods, variant, encoded, decoded, pcE>>

emVars == <<emap, mapped, pcM>>

testVars == <<case_lines, new_cases, errors, argv2, written, exit_code, pcT>>

margeVars == <<elements_sorted, undetermined, appended>>

regVars == <<types, enums, made>>

mapVars == <<op_encodings, encode_maps, pcA>>

bitVars == <<the_bits, word, accum, mask_out, the_exact, merged, pcX>>

grpVars == <<gm, hdr_mappings, igrp_hdr, instr_op_mods, pcG>>

selVars == <<sel_op, sel_vals, sel_variant>>

ftVars == <<the_type, ft_val, ft_enc, pcF>>

rwVars == <<readers, global_lock, read_lock, tpc>>

lateVars == <<bitVars, grpVars, selVars, ftVars, rwVars>>

vars == <<instrs, prog, i, pc, last,
          the_set, field_mappings, bs, values, buf, ret, pcB,
          instr_op, instr_mods, variant, encoded, decoded, pcE,
          emap, mapped, pcM,
          case_lines, new_cases, errors, argv2, written, exit_code, pcT,
          elements_sorted, undetermined, appended,
          types, enums, made,
          op_encodings, encode_maps, pcA,
          the_bits, word, accum, mask_out, the_exact, merged, pcX,
          gm, hdr_mappings, igrp_hdr, instr_op_mods, pcG,
          sel_op, sel_vals, sel_variant,
          the_type, ft_val, ft_enc, pcF,
          readers, global_lock, read_lock, tpc>>

-----------------------------------------------------------------------------
(* Bounds of the model.                                                    *)

MaxInstrs == 2
MaxProg == 3

-----------------------------------------------------------------------------
(* Generic helpers.                                                        *)

Min(a, b) == IF a < b THEN a ELSE b
Max(a, b) == IF a > b THEN a ELSE b

RECURSIVE Pow2(_)
Pow2(n) == IF n = 0 THEN 1 ELSE 2 * Pow2(n - 1)

\* The bits of a byte value (0..255), as a set of positions.
BitsOfByte(v) == {b \in 0..7 : (v \div Pow2(b)) % 2 = 1}

\* The value of a small bit set.
RECURSIVE IntOf(_)
IntOf(S) ==
    IF S = {} THEN 0
    ELSE LET b == CHOOSE x \in S : TRUE IN Pow2(b) + IntOf(S \ {b})

\* Python slicing s[a:b] of a sequence.
PySlice(s, a, b) ==
    LET n == Len(s)
        lo == IF a < 0 THEN Max(a + n, 0) ELSE Min(a, n)
        hi == IF b < 0 THEN Max(b + n, 0) ELSE Min(b, n)
    IN  IF hi <= lo THEN <<>> ELSE SubSeq(s, lo + 1, hi)

SeqRange(s) == {s[k] : k \in 1..Len(s)}

-----------------------------------------------------------------------------
(* isa.py: bit ranges and Bits.                                            *)

\* BitRange(start, end): size and mask.
BitRange(start, end) == [start |-> start, size |-> end - start + 1]

RangeMask(r) == r.start .. (r.start + r.size - 1)

\* Bits.size()
BitsSize(bits) ==
    LET RECURSIVE S(_)
        S(k) == IF k = 0 THEN 0 ELSE bits[k].size + S(k - 1)
    IN  S(Len(bits))

\* Bits.mask(): the union of the ranges' masks.
BitsMask(bits) == UNION {RangeMask(bits[k]) : k \in 1..Len(bits)}

\* An extraction that gives the last range the least significant place.
BitsExtractLastFirst(bits, x) ==
    LET RECURSIVE E(_, _)
        E(k, n) ==
            IF k = 0 THEN {}
            ELSE {b - bits[k].start + n : b \in x \cap RangeMask(bits[k])}
                 \cup E(k - 1, n + bits[k].size)
    IN  E(Len(bits), 0)

\* Bits.extract(x)
BitsExtract(bits, x) ==
    LET RECURSIVE E(_, _)
        E(k, n) ==
            IF k > Len(bits) THEN {}
            ELSE {b - bits[k].start + n : b \in x \cap RangeMask(bits[k])}
                 \cup E(k + 1, n + bits[k].size)
    IN  E(1, 0)

\* Integer addition on binary expansions (used by sum(masks)).
RECURSIVE PyAdd(_, _)
PyAdd(A, B) ==
    IF B = {} THEN A
    ELSE PyAdd((A \cup B) \ (A \cap B), {b + 1 : b \in A \cap B})

\* A mask() without the comparison of the sum with the union.
BitsMaskUnchecked(bits) == TRUE

\* The assertion of Bits.mask(): sum(masks) == union.
BitsMaskAssert(bits) ==
    LET RECURSIVE Sum(_)
        Sum(k) == IF k = 0 THEN {} ELSE PyAdd(Sum(k - 1), RangeMask(bits[k]))
    IN  Sum(Len(bits)) = BitsMask(bits)

-----------------------------------------------------------------------------
(* isa.py: the object graph built from the ISA description.  The           *)
(* description file itself is not part of the sources; the tables below     *)
(* are small tables of the same shape.                                      *)

Modifier(name, display, kind, bits) ==
    [name |-> name, display |-> display, kind |-> kind, bits |-> bits]

Immediate(name, kind, bits, shift) ==
    [name |-> name, kind |-> kind, bits |-> bits, shift |-> shift]

Operand(kind, bits) == [kind |-> kind, bits |-> bits]

\* defs['length']: the shared length modifier.
DefLength == Modifier("length", "length", "int", <<BitRange(15, 15)>>)

\* Instruction.__init__: infers the length modifier and records length_spec
\* (<<>> is None).
Instruction(name, length, exact, mods0, dests, srcs, imms) ==
    LET mods == IF Len(length) > 1
                   /\ ~\E k \in 1..Len(mods0) : mods0[k].name = "length"
                THEN Append(mods0, DefLength) ELSE mods0
        ks   == {k \in 1..Len(mods) : mods[k].name = "length"}
        spec == IF ks = {} THEN <<>>
                ELSE <<mods[CHOOSE k \in ks : \A j \in ks : j <= k]>>
    IN  [name |-> name, display |-> name, length |-> length, exact |-> exact,
         modifiers |-> mods, dests |-> dests, sources |-> srcs,
         immediates |-> imms, length_spec |-> spec]

\* Instruction.mask() with the destinations left out.
InstrMaskNoDests(ins) ==
    LET parts == ins.modifiers \o ins.immediates \o ins.sources
    IN  ins.exact.mask \cup UNION {BitsMask(parts[k].bits) : k \in 1..Len(parts)}

\* Instruction.mask()
InstrMask(ins) ==
    LET parts == ins.modifiers \o ins.immediates \o ins.sources \o ins.dests
    IN  ins.exact.mask \cup UNION {BitsMask(parts[k].bits) : k \in 1..Len(parts)}

\* The assertions Bits.mask() makes while Instruction.mask() runs.
InstrMaskAssert(ins) ==
    LET parts == ins.modifiers \o ins.immediates \o ins.sources \o ins.dests
    IN  \A k \in 1..Len(parts) : BitsMaskAssert(parts[k].bits)

\* isa.enums, by kind: value -> display; "" is a default value's display
\* (None).  Values missing from the domain are unknown.
Enums == [mode |-> [v \in {0, 1, 2} |-> <<"", "sat", "wrap">>[v + 1]]]

\* isa.encodings, by operand kind: the cases of each encoding.
Encodings ==
    [reg |-> <<
        [exact |-> [mask |-> {3}, value |-> {}],
         kind |-> <<Immediate("r", "int", <<BitRange(0, 2)>>, 0)>>,
         modifiers |-> <<>>, properties |-> <<>>],
        [exact |-> [mask |-> {3}, value |-> {3}],
         kind |-> <<Immediate("imm", "signed", <<BitRange(0, 2)>>, 0)>>,
         modifiers |-> <<>>, properties |-> <<>>] >>,
     opt |-> <<
        [exact |-> [mask |-> {0, 1}, value |-> {}],
         kind |-> <<>>, modifiers |-> <<>>, properties |-> <<>>],
        [exact |-> [mask |-> {0}, value |-> {0}],
         kind |-> <<Immediate("simm", "signed", <<BitRange(1, 3)>>, 1)>>,
         modifiers |-> <<>>, properties |-> <<>>],
        [exact |-> [mask |-> {}, value |-> {}],
         kind |-> <<Immediate("r", "int", <<BitRange(1, 3)>>, 0)>>,
         modifiers |-> <<>>, properties |-> <<>>] >>]

\* The instructions a table is made of.
InstrPool == {
    Instruction("trap", <<2>>, [mask |-> 0..7, value |-> {3}],
                <<>>, <<>>, <<>>, <<>>),
    Instruction("add", <<2, 4>>, [mask |-> {0, 1}, value |-> {0}],
                <<Modifier("sat", "sat", "int", <<BitRange(2, 2)>>)>>,
                <<Operand("reg", <<BitRange(4, 7)>>)>>,
                <<Operand("reg", <<BitRange(16, 19)>>)>>,
                <<Immediate("imm", "int", <<BitRange(8, 9)>>, 0)>>),
    Instruction("any", <<2>>, [mask |-> {0}, value |-> {0}],
                <<Modifier("mode", "mode", "mode", <<BitRange(1, 2)>>)>>,
                <<>>, <<>>, <<>>),
    Instruction("ld", <<4>>, [mask |-> {0, 2, 3}, value |-> {0, 2}],
                <<>>, <<Operand("reg", <<BitRange(4, 7)>>)>>, <<>>,
                <<Immediate("offset", "signed", <<BitRange(8, 10), BitRange(15, 15)>>, 0)>>) }

\* The byte values programs are made of.
ByteVals == {0, 8, 21, 128}

-----------------------------------------------------------------------------
(* test/disasm.py: the decoder.  Rendered text is modelled by tokens: a    *)
(* token records what the rendered string is made of.  t = "none" is None   *)
(* and t = "raise" is a failed assertion.                                   *)

Tok(t, s, n, x) == [t |-> t, s |-> s, n |-> n, x |-> x]
None == Tok("none", "", 0, <<>>)
Raise == Tok("raise", "", 0, <<>>)

\* match_instr(raw): the first instruction of the table, from index k on,
\* whose exact bits match; instr = 0 is None, instr = -1 is an IndexError
\* raised by the length lookup.
no_match_len1(raw) == [length |-> 1, instr |-> 0, raw |-> raw]

\* match_instr's fallback: return 2, None, raw
no_match(raw) == [length |-> 2, instr |-> 0, raw |-> raw]

RECURSIVE match_from(_, _, _)
match_from(tab, raw, k) ==
    IF k > Len(tab) THEN no_match(raw)
    ELSE LET instr  == tab[k]
             idx    == IF instr.length_spec /= <<>>
                       THEN IntOf(BitsExtract(instr.length_spec[1].bits, raw))
                       ELSE 0
             length == instr.length[idx + 1]
             r      == {b \in raw : b < length * 8}
         IN  IF idx + 1 > Len(instr.length)
             THEN [length |-> 0, instr |-> -1, raw |-> raw]
             ELSE IF (r \cap instr.exact.mask) = instr.exact.value
             THEN [length |-> length, instr |-> k, raw |-> r]
             ELSE match_from(tab, raw, k + 1)

\* A scan that keeps the last match instead of returning the first.
RECURSIVE match_last_from(_, _, _)
match_last_from(tab, raw, k) ==
    IF k = 0 THEN no_match(raw)
    ELSE LET m == match_from(<<tab[k]>>, raw, 1)
         IN  IF m.instr = 1 THEN [m EXCEPT !.instr = k]
             ELSE match_last_from(tab, raw, k - 1)

match_instr_last(tab, raw) == match_last_from(tab, raw, Len(tab))

\* A scan that reads the length one entry further in the length list.
RECURSIVE match_next_from(_, _, _)
match_next_from(tab, raw, k) ==
    IF k > Len(tab) THEN no_match(raw)
    ELSE LET instr  == tab[k]
             idx    == IF instr.length_spec /= <<>>
                       THEN IntOf(BitsExtract(instr.length_spec[1].bits, raw)) + 1
                       ELSE 0
             length == instr.length[idx + 1]
             r      == {b \in raw : b < length * 8}
         IN  IF idx + 1 > Len(instr.length)
             THEN [length |-> 0, instr |-> -1, raw |-> raw]
             ELSE IF (r \cap instr.exact.mask) = instr.exact.value
             THEN [length |-> length, instr |-> k, raw |-> r]
             ELSE match_next_from(tab, raw, k + 1)

match_instr_next(tab, raw) == match_next_from(tab, raw, 1)

\* A scan that hands back the whole raw word instead of the masked one.
match_instr_raw(tab, raw) == [match_from(tab, raw, 1) EXCEPT !.raw = raw]

match_instr(tab, raw) == match_from(tab, raw, 1)

\* map_value(v, kind, length)
map_value(v, kind, length) ==
    IF kind \in DOMAIN Enums
    THEN IF v \in DOMAIN Enums[kind]
         THEN IF Enums[kind][v] = "" THEN None
              ELSE Tok("str", Enums[kind][v], 0, <<>>)
         ELSE Tok("unk", "", v, <<>>)
    ELSE IF kind = "signed"
    THEN IF length >= 1 /\ (v \div Pow2(length - 1)) % 2 = 1
         THEN Tok("int", "", -(Pow2(length) - v), <<>>)
         ELSE Tok("int", "", v, <<>>)
    ELSE Tok("int", "", v, <<>>)

\* map_mod(v, mod)
map_mod(v, mod) ==
    IF mod.kind \in DOMAIN Enums THEN map_value(v, mod.kind, 0)
    ELSE IF BitsSize(mod.bits) /= 1 THEN Raise
    ELSE IF v /= 0 THEN Tok("str", mod.display, 0, <<>>) ELSE None

Get(desc, key, dflt) == IF key \in DOMAIN desc THEN desc[key] ELSE dflt

\* popcount of a small integer.
RECURSIVE BitCount(_)
BitCount(n) == IF n = 0 THEN 0 ELSE (n % 2) + BitCount(n \div 2)

\* operand(desc, length); kind = <<>> is None.
operand(kind, base, desc, length) ==
    LET count0 == Get(desc, "count", 1)
        count1 == IF count0 = 0 THEN 4 ELSE count0
        count  == IF "mask" \in DOMAIN desc THEN BitCount(desc["mask"]) ELSE count1
        sx     == IF "zx" \in DOMAIN desc THEN 1 - desc["zx"] ELSE Get(desc, "sx", 0)
        size   == IF Get(desc, "size64", 0) /= 0 THEN 64
                  ELSE IF Get(desc, "size32", 0) /= 0 THEN 32 ELSE 16
        hint   == Get(desc, "hint", -1)
        discard == (Get(desc, "discard", 0) /= 0) \/ hint = 3
        cache  == (Get(desc, "cache", 0) /= 0) \/ hint = 2
        hintS  == IF discard THEN "^" ELSE IF cache THEN "$" ELSE ""
        sfx    == {x \in {"abs", "neg"} : Get(desc, x, 0) /= 0}
                  \cup (IF sx /= 0 THEN {"sx"} ELSE {})
    IN  IF hint \notin {-1, 1, 2, 3} \/ (cache /\ discard) THEN Raise
        ELSE IF kind = <<>> THEN None
        ELSE IF kind[1] \in {"cf", "ts", "ss"}
        THEN IF count /= 1 THEN Raise ELSE Tok("op", kind[1], base, <<sfx>>)
        ELSE IF kind[1] = "fimm" THEN Tok("fimm", "", base, <<sfx>>)
        ELSE IF kind[1] \in {"imm", "signed"}
        THEN LET v == map_value(base, kind[1], length)
             IN  Tok(v.t, v.s, v.n, <<sfx>>)
        ELSE IF size /= 16 /\ count > 0 /\ base % 2 /= 0 THEN Raise
        ELSE Tok("reg", kind[1], base, <<hintS, size, count, sfx>>)

\* The desc dictionary map_op fills from a case's modifiers, then its
\* properties (a property overrides a modifier of the same name).
case_desc(c, v) ==
    LET names == {c.modifiers[k].name : k \in 1..Len(c.modifiers)}
                 \cup {c.properties[k].name : k \in 1..Len(c.properties)}
        PropOf(n) == CHOOSE k \in 1..Len(c.properties) :
                        /\ c.properties[k].name = n
                        /\ \A j \in 1..Len(c.properties) :
                              c.properties[j].name = n => j <= k
        ModOf(n) == CHOOSE k \in 1..Len(c.modifiers) :
                        /\ c.modifiers[k].name = n
                        /\ \A j \in 1..Len(c.modifiers) :
                              c.modifiers[j].name = n => j <= k
    IN  [n \in names |->
            IF \E k \in 1..Len(c.properties) : c.properties[k].name = n
            THEN c.properties[PropOf(n)].value
            ELSE IntOf(BitsExtract(c.modifiers[ModOf(n)].bits, v))]

\* map_op(v, kind, raw, ins, length): the first case whose exact bits match.
RECURSIVE map_op_from(_, _, _, _)
map_op_from(cases, v, length, k) ==
    IF k > Len(cases) THEN None
    ELSE LET c == cases[k]
         IN  IF (v \cap c.exact.mask) = c.exact.value
             THEN IF c.kind /= <<>>
                  THEN operand(<<IF c.kind[1].kind = "signed" THEN "signed"
                                 ELSE c.kind[1].name>>,
                               IntOf(BitsExtract(c.kind[1].bits, v))
                                   * Pow2(c.kind[1].shift),
                               case_desc(c, v), BitsSize(c.kind[1].bits))
                  ELSE operand(<<>>, 0, case_desc(c, v), length)
             ELSE map_op_from(cases, v, length, k + 1)

map_op(v, kind, length) == map_op_from(Encodings[kind], v, length, 1)

MapSeq(s, F(_)) == [k \in 1..Len(s) |-> F(s[k])]
KeepNone(t) == TRUE

NotNone(t) == t.t /= "none"

Unknown == <<Tok("str", "<unknown instr>", 0, <<>>)>>

\* disasm(raw_in): (length, asm), the unexpected bits it printed (warn) and
\* whether it raised (err).
disasm(tab, raw_in) ==
    LET m == match_instr(tab, raw_in)
    IN  IF m.instr = -1
        THEN [length |-> 0, asm |-> <<>>, warn |-> {}, err |-> TRUE, instr |-> 0]
        ELSE IF m.instr = 0
        THEN [length |-> m.length, asm |-> Unknown, warn |-> {},
              err |-> FALSE, instr |-> 0]
        ELSE
        LET instr == tab[m.instr]
            raw   == m.raw
            imms  == MapSeq(instr.immediates,
                        LAMBDA imm : map_value(IntOf(BitsExtract(imm.bits, raw)),
                                               imm.kind, BitsSize(imm.bits)))
            mods  == MapSeq(SelectSeq(instr.modifiers,
                                      LAMBDA mod : mod.name /= "length"),
                        LAMBDA mod : map_mod(IntOf(BitsExtract(mod.bits, raw)), mod))
            dests == MapSeq(instr.dests,
                        LAMBDA d : map_op(BitsExtract(d.bits, raw), d.kind,
                                          BitsSize(d.bits)))
            srcs  == MapSeq(instr.sources,
                        LAMBDA d : map_op(BitsExtract(d.bits, raw), d.kind,
                                          BitsSize(d.bits)))
            dests1 == MapSeq(dests, LAMBDA x : IF x.t = "none"
                                               THEN Tok("str", "_", 0, <<>>) ELSE x)
            end   == dests1 \o SelectSeq(srcs, NotNone) \o SelectSeq(imms, NotNone)
                     \o SelectSeq(mods, NotNone)
            asm   == <<Tok("str", instr.display, 0, <<>>)>> \o end
            unexpected == {b \in raw \ InstrMask(instr) : b < m.length * 8}
            raised == \/ \E k \in 1..Len(end) : end[k].t = "raise"
                      \/ ~InstrMaskAssert(instr)
        IN  IF raised
            THEN [length |-> 0, asm |-> <<>>, warn |-> {}, err |-> TRUE,
                  instr |-> m.instr]
            ELSE [length |-> IF unexpected /= {} THEN -m.length ELSE m.length,
                  asm |-> asm, warn |-> unexpected, err |-> FALSE,
                  instr |-> m.instr]

-----------------------------------------------------------------------------
(* test/disasm.py, __main__: the loop that disassembles a program.         *)

\* raw = sum(x << (8 * i)) over the bytes of the window.
RawOf(lst) == UNION {{8 * (k - 1) + b : b \in BitsOfByte(lst[k])} : k \in 1..Len(lst)}

IsTrap(asm) == Len(asm) = 1 /\ asm[1].s = "trap"

NoResult == [length |-> 0, asm |-> <<>>, warn |-> {}, err |-> FALSE, instr |-> 0,
             raw |-> {}, off |-> 0, ran |-> FALSE]

Tables == {t \in UNION {[1..n -> InstrPool] : n \in 1..Min(MaxInstrs, Cardinality(InstrPool))} :
              \A a, b \in DOMAIN t : a /= b => t[a].name /= t[b].name}

Programs == UNION {[1..n -> ByteVals] : n \in 1..MaxProg}

\* The state of the disassembly loop while it is not running.
IdleDis ==
    /\ instrs = <<>>
    /\ prog = <<>>
    /\ i = 0
    /\ pc = "idle"
    /\ last = NoResult

\* The state of the bit struct builder while it is not running.
IdleBS ==
    /\ the_set = ""
    /\ field_mappings = <<>>
    /\ bs = [err |-> "", struct_fields |-> <<>>, num_bytes |-> 0]
    /\ values = <<>>
    /\ buf = <<>>
    /\ ret = 0
    /\ pcB = "idle"

\* The state of the instruction encoder while it is not running.
IdleEnc ==
    /\ instr_op = ""
    /\ instr_mods = [neg |-> FALSE, abs |-> FALSE]
    /\ variant = 0
    /\ encoded = <<>>
    /\ decoded = [op |-> "", mods |-> [neg |-> FALSE, abs |-> FALSE]]
    /\ pcE = "idle"

\* The state of the enum mapping while it is not running.
IdleEM ==
    /\ emap = [enum_from |-> "", enum_to |-> "", mappings |-> <<>>,
               pass_zero |-> <<>>, err |-> "", both_bitsets |-> FALSE,
               pass_zero_val |-> <<>>]
    /\ mapped = [val |-> 0, out |-> 0, err |-> ""]
    /\ pcM = "idle"

\* The state of the test harness while it is not running.
IdleTest ==
    /\ case_lines = <<>>
    /\ new_cases = <<>>
    /\ errors = FALSE
    /\ argv2 = ""
    /\ written = FALSE
    /\ exit_code = -1
    /\ pcT = "idle"

\* MargeQueue(): both collections empty.
IdleMarge ==
    /\ elements_sorted = <<>>
    /\ undetermined = <<>>
    /\ appended = <<>>

\* No declaration made: types = {} and enums = {}.
NoDecl == [call |-> "", name |-> "", parent |-> "", num_bits |-> 0, err |-> ""]

IdleReg ==
    /\ types = <<>>
    /\ enums = <<>>
    /\ made = NoDecl

\* No encode_map call made: encode_maps = {}.
IdleMap ==
    /\ op_encodings = <<>>
    /\ encode_maps = <<>>
    /\ pcA = "idle"

\* No field under test.
IdleBits ==
    /\ the_bits = <<>>
    /\ word = {}
    /\ accum = {}
    /\ mask_out = [ok |-> TRUE, val |-> {}]
    /\ the_exact = [mask |-> {}, value |-> {}]
    /\ merged = <<>>
    /\ pcX = "idle"

\* No group mapping.
IdleGrp ==
    /\ gm = <<>>
    /\ hdr_mappings = <<>>
    /\ igrp_hdr = <<>>
    /\ instr_op_mods = <<>>
    /\ pcG = -1

\* No instruction to select a variant for.
IdleSel ==
    /\ sel_op = ""
    /\ sel_vals = <<>>
    /\ sel_variant = 0

\* No value to encode.
IdleFT ==
    /\ the_type = ""
    /\ ft_val = {}
    /\ ft_enc = {}
    /\ pcF = "idle"

\* No task uses the lock.
IdleRW ==
    /\ readers = 0
    /\ global_lock = [locked |-> FALSE, waiters |-> <<>>, woken |-> FALSE]
    /\ read_lock = [locked |-> FALSE, waiters |-> <<>>, woken |-> FALSE]
    /\ tpc = <<>>

IdleLate == IdleBits /\ IdleGrp /\ IdleSel /\ IdleFT /\ IdleRW

InitDis ==
    /\ IdleLate
    /\ IdleTest
    /\ IdleMarge
    /\ IdleReg
    /\ IdleMap
    /\ IdleBS
    /\ IdleEnc
    /\ IdleEM
    /\ instrs \in Tables
    /\ prog \in Programs
    /\ i = 0
    /\ pc = "loop"
    /\ last = NoResult

\* One iteration of the loop: decode the word at i, print, advance.
DisasmStep ==
    /\ pc = "loop"
    /\ i < Len(prog)
    /\ LET lst == PySlice(prog, i, i + 16)
           raw == RawOf(lst)
           res == disasm(instrs, raw)
       IN  /\ last' = [length |-> res.length, asm |-> res.asm, warn |-> res.warn,
                       err |-> res.err, instr |-> res.instr, raw |-> raw, off |-> i,
                       ran |-> TRUE]
           /\ IF res.err THEN pc' = "raised" /\ i' = i
              ELSE IF IsTrap(res.asm) THEN pc' = "done" /\ i' = i
              ELSE pc' = pc /\ i' = i + res.length
    /\ UNCHANGED <<instrs, prog>>
    /\ UNCHANGED bsVars
    /\ UNCHANGED encVars
    /\ UNCHANGED emVars
    /\ UNCHANGED <<testVars, margeVars, regVars, mapVars, lateVars>>

\* The loop condition fails: the program has been disassembled.
DisasmExit ==
    /\ pc = "loop"
    /\ i >= Len(prog)
    /\ pc' = "done"
    /\ UNCHANGED <<instrs, prog, i, last>>
    /\ UNCHANGED bsVars
    /\ UNCHANGED encVars
    /\ UNCHANGED emVars
    /\ UNCHANGED <<testVars, margeVars, regVars, mapVars, lateVars>>

NextDis == DisasmStep \/ DisasmExit

SpecDis == InitDis /\ [][NextDis]_vars

-----------------------------------------------------------------------------
(* Properties of the decoder.                                              *)

\* The length match_instr gives a candidate for a raw word.
CandLength(ins, raw) ==
    ins.length[(IF ins.length_spec /= <<>>
                THEN IntOf(BitsExtract(ins.length_spec[1].bits, raw)) ELSE 0) + 1]

\* The candidate's exact bits match the raw word truncated to its length.
ExactMatches(ins, raw) ==
    LET r == {b \in raw : b < 8 * CandLength(ins, raw)}
    IN  (r \cap ins.exact.mask) = ins.exact.value

MatchSet == {k \in 1..Len(instrs) : ExactMatches(instrs[k], last.raw)}

FirstOf(S) == CHOOSE k \in S : \A j \in S : k <= j

SwapTab(tab, a, b) ==
    [k \in 1..Len(tab) |-> IF k = a THEN tab[b] ELSE IF k = b THEN tab[a] ELSE tab[k]]

\* C4: the decoder selects the first instruction of the table, in table
\* order, whose exact mask/value matches the raw word truncated to the
\* candidate's length; when two instructions match, the earlier one is
\* selected, and with the two swapped in the table the other one is selected.
C4_FirstMatchWins ==
    (last.ran /\ ~last.err) =>
        /\ (MatchSet = {}) <=> (last.instr = 0)
        /\ MatchSet /= {} => last.instr = FirstOf(MatchSet)
        /\ \A b \in MatchSet :
              b /= FirstOf(MatchSet) =>
                 LET tab2 == SwapTab(instrs, FirstOf(MatchSet), b)
                     m2   == match_instr(tab2, last.raw)
                 IN  /\ m2.instr = FirstOf(MatchSet)
                     /\ tab2[m2.instr].name = instrs[b].name
                     /\ tab2[m2.instr].name /= instrs[last.instr].name

C4_Witness ==
    /\ last.ran /\ ~last.err
    /\ Cardinality(MatchSet) >= 2
    /\ last.instr = FirstOf(MatchSet)

\* The bit positions covered by a list of fields, from their ranges.
FieldBits(parts) ==
    {b \in 0..127 : \E k \in 1..Len(parts) : \E j \in 1..Len(parts[k].bits) :
        /\ parts[k].bits[j].start <= b
        /\ b < parts[k].bits[j].start + parts[k].bits[j].size}

\* The set bits of the raw word, within the instruction's length, outside
\* the exact mask and outside every modifier, immediate, source and
\* destination field.
StrayBits ==
    LET ins == instrs[last.instr]
        len == CandLength(ins, last.raw)
    IN  {b \in last.raw :
            /\ b < 8 * len
            /\ b \notin ins.exact.mask
            /\ b \notin FieldBits(ins.modifiers) \cup FieldBits(ins.immediates)
                        \cup FieldBits(ins.sources) \cup FieldBits(ins.dests)}

\* C5: when the matched instruction's word has a set bit outside the
\* instruction's total mask, disasm reports exactly those bits and returns
\* the negated length; otherwise it returns the positive length and reports
\* nothing.
C5_UnexpectedBits ==
    (last.ran /\ ~last.err /\ last.instr > 0) =>
        LET len == CandLength(instrs[last.instr], last.raw)
        IN  IF StrayBits /= {}
            THEN last.length = -len /\ last.warn = StrayBits
            ELSE last.length = len /\ last.warn = {}

C5_Witness ==
    /\ last.ran /\ ~last.err /\ last.instr > 0
    /\ StrayBits /= {}
    /\ last.length < 0
    /\ last.warn /= {}

\* C9: when no instruction of the table matches the raw word, disasm raises
\* nothing and returns length 2 with the text "<unknown instr>", and the
\* loop continues two bytes further.
C9_UnknownTolerated ==
    (last.ran /\ MatchSet = {}) =>
        /\ ~last.err
        /\ last.length = 2
        /\ last.asm = Unknown
        /\ last.warn = {}
        /\ pc \in {"loop", "done"}
        /\ i = last.off + 2

C9_Witness ==
    /\ last.ran /\ MatchSet = {}
    /\ last.asm = Unknown
    /\ pc = "loop"
    /\ i < Len(prog)

\* C10: on every iteration of the loop that does not end it, the byte
\* offset strictly increases.
C10_OffsetIncreases == [][(pc = "loop" /\ pc' = "loop") => i' > i]_vars

-----------------------------------------------------------------------------
(* pco_pygen_common.py: types, bit pieces, bit fields, bit sets.           *)

\* val_fits_in_bits(val, num_bits)
val_fits_in_bits(val, num_bits) == val < Pow2(num_bits)

\* type(): a scalar type.  dec_bits = 0 is None; check and encode name the
\* type's C expressions ("" is None).
Type(name, base_type, num_bits, dec_bits, check, encode) ==
    [name |-> name, base_type |-> base_type, num_bits |-> num_bits,
     dec_bits |-> dec_bits, check |-> check, encode |-> encode,
     elems |-> <<>>, is_bitset |-> FALSE, parent |-> <<>>]

\* enum_type(): elems is the list of (element, value).
EnumType(name, elems, is_bitset, num_bits) ==
    [name |-> name, base_type |-> "enum", num_bits |-> num_bits,
     dec_bits |-> 0, check |-> "", encode |-> "",
     elems |-> elems, is_bitset |-> is_bitset, parent |-> <<>>]

ElemNames(t) == {t.elems[k][1] : k \in 1..Len(t.elems)}
ElemValue(t, e) == t.elems[CHOOSE k \in 1..Len(t.elems) : t.elems[k][1] = e][2]

\* pco_isa.py: the field types used below.
F_BOOL == Type("bool", "bool", 1, 0, "", "")
F_UINT1 == Type("uint1", "uint", 1, 0, "", "")
F_UINT3 == Type("uint3", "uint", 3, 0, "", "")
F_UINT5 == Type("uint5", "uint", 5, 0, "", "")
F_UINT2_POS_INC == Type("uint2_pos_inc", "uint", 2, 3, "pos_inc", "pos_inc")

F_ALUTYPE == EnumType("alutype",
    << <<"main", 0>>, <<"bitwise", 2>>, <<"control", 3>> >>, FALSE, 2)

F_MAIN_OP == EnumType("main_op",
    << <<"fadd", 0>>, <<"fadd_lp", 1>>, <<"fmul", 2>>, <<"fmul_lp", 3>>,
       <<"sngl", 4>>, <<"int8_16", 5>>, <<"fmad_movc", 6>>,
       <<"int32_64_tst", 7>> >>, FALSE, 3)

F_SNGL_OP == EnumType("sngl_op",
    << <<"rcp", 0>>, <<"rsq", 1>>, <<"log", 2>>, <<"exp", 3>>,
       <<"f16sop", 4>>, <<"logcn", 5>>, <<"gamma", 6>>, <<"byp", 7>>,
       <<"dsx", 8>>, <<"dsy", 9>>, <<"dsxf", 10>>, <<"dsyf", 11>>,
       <<"pck", 12>>, <<"red", 13>>, <<"sinc", 14>>, <<"arctanc", 15>> >>,
    FALSE, 4)

F_RED_PART == EnumType("red_part", << <<"a", 0>>, <<"b", 1>> >>, FALSE, 1)

\* bit_piece(name, byte, bit_range): ok is the range assertion.
bit_piece(name, byte, hi_bit, lo_bit) ==
    [name |-> name, byte |-> byte, hi_bit |-> hi_bit, lo_bit |-> lo_bit,
     num_bits |-> hi_bit - lo_bit + 1,
     ok |-> hi_bit < 8 /\ hi_bit >= 0 /\ lo_bit < 8 /\ lo_bit >= 0
            /\ hi_bit >= lo_bit]

SumBits(pieces) ==
    LET RECURSIVE S(_)
        S(k) == IF k = 0 THEN 0 ELSE pieces[k].num_bits + S(k - 1)
    IN  S(Len(pieces))

\* bit_field(name, bit_set_pieces, field_type, pieces, reserved):
\* reserved = <<>> is None; ok is the conjunction of its assertions.
bit_field(name, bit_set_pieces, field_type, pieces, reserved) ==
    LET Piece(n) == bit_set_pieces[CHOOSE k \in 1..Len(bit_set_pieces) :
                                      bit_set_pieces[k].name = n]
        _pieces == [k \in 1..Len(pieces) |-> Piece(pieces[k])]
        total_bits == SumBits(_pieces)
    IN  [name |-> name, field_type |-> field_type, pieces |-> _pieces,
         reserved |-> reserved,
         ok |-> /\ total_bits = field_type.num_bits
                /\ reserved /= <<>> => val_fits_in_bits(reserved[1], total_bits)]

\* bit_set(name, pieces, fields)
bit_set(name, pieces, fields) ==
    [name |-> name, pieces |-> pieces,
     fields |-> [k \in 1..Len(fields) |->
                    bit_field(fields[k][1], pieces, fields[k][2], fields[k][3],
                              fields[k][4])]]

\* pco_isa.py: the pieces and fields of I_MAIN that the sngl encodings use.
I_MAIN == bit_set("main",
    << bit_piece("main_op", 0, 7, 5),
       bit_piece("ext0", 0, 4, 4),
       bit_piece("sat_fam", 0, 4, 4),
       bit_piece("sngl_op", 0, 3, 0),
       bit_piece("red_part", 1, 7, 7),
       bit_piece("iter", 1, 6, 4),
       bit_piece("red_type", 1, 3, 3),
       bit_piece("pwen_red", 1, 2, 2),
       bit_piece("s0neg_sngl", 1, 1, 1),
       bit_piece("s0abs_sngl", 1, 0, 0) >>,
    << <<"main_op", F_MAIN_OP, <<"main_op">>, <<>> >>,
       <<"ext0", F_BOOL, <<"ext0">>, <<>> >>,
       <<"sat_fam", F_BOOL, <<"sat_fam">>, <<>> >>,
       <<"sngl_op", F_SNGL_OP, <<"sngl_op">>, <<>> >>,
       <<"rsvd1_sngl", F_UINT5, <<"red_part", "iter", "red_type">>, <<0>> >>,
       <<"rsvd1_sngl_", F_UINT1, <<"pwen_red">>, <<0>> >>,
       <<"red_part", F_RED_PART, <<"red_part">>, <<>> >>,
       <<"iter", F_UINT3, <<"iter">>, <<>> >>,
       <<"s0neg_sngl", F_BOOL, <<"s0neg_sngl">>, <<>> >>,
       <<"s0abs_sngl", F_BOOL, <<"s0abs_sngl">>, <<>> >> >>)

-----------------------------------------------------------------------------
(* pco_pygen_common.py: bit_struct.                                        *)

\* A literal of a field mapping: a string, an int or a bool (n is 0 or 1).
Lit(k, str, n) == [k |-> k, s |-> str, n |-> n]

\* A field mapping: 'field' is [sf = field, fixed = <<>>],
\* (struct_field, field) and (struct_field, field, fixed_value) are tuples.
Mapping(sf, field, fixed) == [sf |-> sf, field |-> field, fixed |-> fixed]

FieldNames(bset) == {bset.fields[k].name : k \in 1..Len(bset.fields)}
FieldOf(bset, n) ==
    bset.fields[CHOOSE k \in 1..Len(bset.fields) : bset.fields[k].name = n]

\* The pieces a mapped field adds to all_pieces.
piece_tuples(field) ==
    [k \in 1..Len(field.pieces) |->
        <<field.pieces[k].lo_bit + 8 * field.pieces[k].byte,
          field.pieces[k].hi_bit + 8 * field.pieces[k].byte,
          field.pieces[k].name>>]

\* total_bits += field_type.num_bits
mapping_bits(field, fixed) == field.field_type.num_bits

\* The assertions on a fixed value; "" when they all pass.
fixed_value_err(field, fixed) ==
    LET t == field.field_type
        v == fixed[1]
    IN  IF field.reserved /= <<>> THEN "fixed_overwrites_reserved"
        ELSE IF t.base_type = "enum" /\ v.k = "str"
        THEN IF v.s \notin ElemNames(t)
             THEN "not_an_element" ELSE ""
        ELSE IF v.k = "str" THEN "not_an_int"
        ELSE IF ~val_fits_in_bits(v.n, t.num_bits) THEN "too_large"
        ELSE ""

\* The struct field a pass-through mapping adds.
struct_field_of(m, field) ==
    LET t  == field.field_type
        ft == IF t.base_type = "enum" /\ t.parent /= <<>> THEN t.parent[1] ELSE t
    IN  [type |-> ft.name, name |-> m.sf,
         bits |-> IF ft.dec_bits /= 0 THEN ft.dec_bits ELSE ft.num_bits]

\* The loop over field_mappings, from mapping k on.
RECURSIVE bit_struct_loop(_, _, _, _)
bit_struct_loop(bset, maps, k, acc) ==
    IF k > Len(maps) \/ acc.err /= "" THEN acc
    ELSE LET m == maps[k]
         IN  IF \E j \in 1..Len(acc.seen) : acc.seen[j] = m.sf
             THEN [acc EXCEPT !.err = "duplicate_struct_field"]
             ELSE IF m.field \notin FieldNames(bset)
             THEN [acc EXCEPT !.err = "field_not_defined"]
             ELSE
             LET field == FieldOf(bset, m.field)
                 ferr  == IF m.fixed /= <<>> THEN fixed_value_err(field, m.fixed)
                          ELSE ""
             IN  IF ferr /= "" THEN [acc EXCEPT !.err = ferr]
                 ELSE bit_struct_loop(bset, maps, k + 1,
                        [err |-> "",
                         seen |-> IF field.reserved = <<>> /\ m.fixed = <<>>
                                  THEN Append(acc.seen, m.sf) ELSE acc.seen,
                         struct_fields |->
                             IF field.reserved = <<>> /\ m.fixed = <<>>
                             THEN Append(acc.struct_fields, struct_field_of(m, field))
                             ELSE acc.struct_fields,
                         all_pieces |-> acc.all_pieces \o piece_tuples(field),
                         total_bits |-> acc.total_bits + mapping_bits(field, m.fixed)])

\* "Check for overlapping pieces": some pair of entries that are not equal
\* fails the assertion.
pieces_overlap(all_pieces) ==
    \E a, b \in 1..Len(all_pieces) :
        /\ all_pieces[a] /= all_pieces[b]
        /\ ~(all_pieces[a][2] < all_pieces[b][1] \/ all_pieces[a][1] > all_pieces[b][2])

not_aligned_off(total_bits) == FALSE

\* "Check for byte-alignment"
not_aligned(total_bits) == (total_bits % 8) /= 0

\* bit_struct(name, bit_set, field_mappings): err = "" when it is accepted.
bit_struct(bset, maps) ==
    LET acc == bit_struct_loop(bset, maps, 1,
                   [err |-> "", seen |-> <<>>, struct_fields |-> <<>>,
                    all_pieces |-> <<>>, total_bits |-> 0])
        err == IF acc.err /= "" THEN acc.err
               ELSE IF pieces_overlap(acc.all_pieces) THEN "overlap"
               ELSE IF not_aligned(acc.total_bits) THEN "not_byte_aligned"
               ELSE ""
    IN  [err |-> err, struct_fields |-> acc.struct_fields,
         num_bytes |-> acc.total_bits \div 8]

-----------------------------------------------------------------------------
(* The generated pack routine (pco_isa.h.py).  The template is in the      *)
(* sources; the per-field attributes it prints (validate, encoding,        *)
(* encoded_bits) and the struct's encode_fields are not, and follow the     *)
(* specification: each piece takes its slice of the value, the first piece  *)
(* of a field the most significant one (as the piece lists of pco_isa.py    *)
(* name them, e.g. tst_op_4bit = tst_op_3, tst_op_2_0).                     *)

\* The check of uint2_pos_inc, taken on the encoded value.
CheckOf_encoded(t, val) ==
    IF t.check = "pos_inc" THEN val - 1 >= 1 /\ val - 1 <= 4 ELSE TRUE

\* field_type.check, as a predicate on val.
CheckOf(t, val) ==
    IF t.check = "pos_inc" THEN val >= 1 /\ val <= 4 ELSE TRUE

\* field_type.encode, applied to val.
EncodeOf(t, val) ==
    IF t.encode = "pos_inc" THEN val - 1 ELSE val

\* field.validate: the encoded value fits the field.
ValidateOf(field, enc_val) ==
    enc_val >= 0 /\ val_fits_in_bits(enc_val, field.field_type.num_bits)

\* One (enc_clear, enc_set) pair: bin[byte] &= ~mask; bin[byte] |= slice << lo.
enc_piece(bin, piece, enc_val, shift) ==
    LET slice == (enc_val \div Pow2(shift)) % Pow2(piece.num_bits)
        old   == BitsOfByte(bin[piece.byte + 1])
        clr   == old \ (piece.lo_bit .. piece.hi_bit)
        set   == clr \cup {b + piece.lo_bit : b \in BitsOfByte(slice)}
    IN  [bin EXCEPT ![piece.byte + 1] = IntOf(set)]

\* The pieces of a field, applied in order from piece k on.
RECURSIVE enc_pieces(_, _, _, _, _)
enc_pieces(bin, field, enc_val, k, left) ==
    IF k > Len(field.pieces) THEN bin
    ELSE enc_pieces(enc_piece(bin, field.pieces[k], enc_val,
                              left - field.pieces[k].num_bits),
                    field, enc_val, k + 1, left - field.pieces[k].num_bits)

\* <bit_set>_encode_field(bin, field, val): the new buffer, the bits it
\* reports and the assertion that failed ("" for none).
encode_field(bin, field, val) ==
    LET t == field.field_type
        enc_val == EncodeOf(t, val)
    IN  IF ~CheckOf(t, val) THEN [bin |-> bin, bits |-> 0, err |-> "check"]
        ELSE IF field.reserved /= <<>> /\ val /= field.reserved[1]
        THEN [bin |-> bin, bits |-> 0, err |-> "reserved"]
        ELSE IF ~ValidateOf(field, enc_val)
        THEN [bin |-> bin, bits |-> 0, err |-> "validate"]
        ELSE [bin |-> enc_pieces(bin, field, enc_val, 1, SumBits(field.pieces)),
              bits |-> SumBits(field.pieces), err |-> ""]

\* bit_struct.encode_fields: every mapped field with the value it is
\* encoded from: s.<struct_field>, the fixed value or the reserved value.
encode_fields(bset, maps) ==
    [k \in 1..Len(maps) |->
        LET field == FieldOf(bset, maps[k].field)
        IN  IF field.reserved /= <<>>
            THEN [field |-> field, sf |-> "", val |-> field.reserved[1]]
            ELSE IF maps[k].fixed = <<>>
            THEN [field |-> field, sf |-> maps[k].sf, val |-> 0]
            ELSE IF maps[k].fixed[1].k = "str"
            THEN [field |-> field, sf |-> "",
                  val |-> ElemValue(field.field_type, maps[k].fixed[1].s)]
            ELSE [field |-> field, sf |-> "", val |-> maps[k].fixed[1].n]]

\* _<bit_struct>_encode(bin, s): encodes every field in turn, then
\* assert(!(bits_encoded % 8)); return bits_encoded / 8.
RECURSIVE struct_encode_from(_, _, _, _)
struct_encode_from(acc, efs, sv, k) ==
    IF k > Len(efs) \/ acc.err /= ""
    THEN IF acc.err = "" /\ acc.bits % 8 /= 0
         THEN [acc EXCEPT !.err = "bits_encoded"] ELSE acc
    ELSE LET ef == efs[k]
             r  == encode_field(acc.bin, ef.field,
                                IF ef.sf /= "" THEN sv[ef.sf] ELSE ef.val)
         IN  struct_encode_from([bin |-> r.bin, bits |-> acc.bits + r.bits,
                                 err |-> r.err], efs, sv, k + 1)

struct_encode(bin, efs, sv) ==
    LET r == struct_encode_from([bin |-> bin, bits |-> 0, err |-> ""], efs, sv, 1)
    IN  [bin |-> r.bin, ret |-> r.bits \div 8, err |-> r.err]

-----------------------------------------------------------------------------
(* Building a bit struct from a bit set, then packing it.                  *)

\* The example of the specification (8, concrete scenario): a 2-bit cond
\* field at byte 1 bits 1:0 and a 1-bit end flag at byte 1 bit 7, in a
\* 2-byte struct whose other bits are reserved.
F_UINT8 == Type("uint8", "uint", 8, 0, "", "")
F_COND == EnumType("cond", << <<"eq", 0>>, <<"ne", 1>>, <<"lt", 2>> >>, FALSE, 2)

I_COND == bit_set("cond",
    << bit_piece("rsvd0", 0, 7, 0),
       bit_piece("end", 1, 7, 7),
       bit_piece("rsvd1", 1, 6, 2),
       bit_piece("cond", 1, 1, 0) >>,
    << <<"rsvd0", F_UINT8, <<"rsvd0">>, <<0>> >>,
       <<"end", F_BOOL, <<"end">>, <<>> >>,
       <<"rsvd1", F_UINT5, <<"rsvd1">>, <<0>> >>,
       <<"cond", F_COND, <<"cond">>, <<>> >> >>)

\* pco_isa.py: the last byte of the instruction group header (end, alutype,
\* rsvd, atom, rpt and the ccext bit), as a bit set of its own whose byte
\* index starts at 0; rpt is the field whose type has a check and an encode.
I_IGRP_HDR == bit_set("igrp_hdr",
    << bit_piece("end", 0, 7, 7),
       bit_piece("alutype", 0, 6, 5),
       bit_piece("rsvd", 0, 4, 4),
       bit_piece("atom", 0, 3, 3),
       bit_piece("rpt", 0, 2, 1),
       bit_piece("ccext", 0, 0, 0) >>,
    << <<"end", F_BOOL, <<"end">>, <<>> >>,
       <<"alutype", F_ALUTYPE, <<"alutype">>, <<>> >>,
       <<"rsvd", F_UINT1, <<"rsvd">>, <<0>> >>,
       <<"atom", F_BOOL, <<"atom">>, <<>> >>,
       <<"rpt", F_UINT2_POS_INC, <<"rpt">>, <<>> >>,
       <<"ccext", F_BOOL, <<"ccext">>, <<>> >> >>)

BitSets == [main |-> I_MAIN, cond |-> I_COND, igrp_hdr |-> I_IGRP_HDR]

\* The field mappings a mapping list is made of, per bit set, in the order
\* they may appear in it.
MappingPool ==
    [main |-> <<
        Mapping("main_op", "main_op", <<Lit("str", "sngl", 0)>>),
        Mapping("ext0", "ext0", <<Lit("int", "", 0)>>),
        Mapping("ext0", "ext0", <<Lit("int", "", 1)>>),
        Mapping("sat", "sat_fam", <<>>),
        Mapping("sngl_op", "sngl_op", <<>>),
        Mapping("alt", "sngl_op", <<>>),
        Mapping("rsvd1", "rsvd1_sngl", <<>>),
        Mapping("rsvd1_", "rsvd1_sngl_", <<>>),
        Mapping("s0neg", "s0neg_sngl", <<>>),
        Mapping("s0abs", "s0abs_sngl", <<>>) >>,
     cond |-> <<
        Mapping("rsvd0", "rsvd0", <<>>),
        Mapping("end", "end", <<>>),
        Mapping("end", "end", <<Lit("int", "", -1)>>),
        Mapping("rsvd1", "rsvd1", <<>>),
        Mapping("rsvd1", "rsvd1", <<Lit("int", "", 0)>>),
        Mapping("cond", "cond", <<>>),
        Mapping("cond", "cond", <<Lit("str", "gt", 0)>>),
        Mapping("cond", "cond", <<Lit("int", "", 3)>>),
        Mapping("cond", "cond", <<Lit("int", "", 4)>>),
        Mapping("cond", "end", <<Lit("str", "eq", 0)>>) >>,
     igrp_hdr |-> <<
        Mapping("end", "end", <<>>),
        Mapping("alutype", "alutype", <<Lit("str", "main", 0)>>),
        Mapping("rsvd", "rsvd", <<>>),
        Mapping("atom", "atom", <<>>),
        Mapping("rpt", "rpt", <<>>),
        Mapping("ccext", "ccext", <<Lit("bool", "", 0)>>) >>]

MaxMappings == 7

PoolIndex(m) ==
    CHOOSE k \in 1..Len(MappingPool[the_set]) : MappingPool[the_set][k] = m

InitBS ==
    /\ IdleLate
    /\ IdleTest
    /\ IdleMarge
    /\ IdleReg
    /\ IdleMap
    /\ IdleDis
    /\ IdleEnc
    /\ IdleEM
    /\ the_set \in DOMAIN BitSets
    /\ field_mappings = <<>>
    /\ bs = [err |-> "", struct_fields |-> <<>>, num_bytes |-> 0]
    /\ values = <<>>
    /\ buf = <<>>
    /\ ret = 0
    /\ pcB = "author"

\* The table author adds one mapping to field_mappings.
AddMapping ==
    /\ pcB = "author"
    /\ Len(field_mappings) < MaxMappings
    /\ \E k \in 1..Len(MappingPool[the_set]) :
          /\ field_mappings /= <<>> => k > PoolIndex(field_mappings[Len(field_mappings)])
          /\ field_mappings' = Append(field_mappings, MappingPool[the_set][k])
    /\ UNCHANGED <<the_set, bs, values, buf, ret, pcB>>
    /\ UNCHANGED disVars
    /\ UNCHANGED encVars
    /\ UNCHANGED emVars
    /\ UNCHANGED <<testVars, margeVars, regVars, mapVars, lateVars>>

\* bit_struct(name, bit_set, field_mappings)
BitStruct ==
    /\ pcB = "author"
    /\ bs' = bit_struct(BitSets[the_set], field_mappings)
    /\ pcB' = IF bs'.err = "" THEN "built" ELSE "failed"
    /\ UNCHANGED <<the_set, field_mappings, values, buf, ret>>
    /\ UNCHANGED disVars
    /\ UNCHANGED encVars
    /\ UNCHANGED emVars
    /\ UNCHANGED <<testVars, margeVars, regVars, mapVars, lateVars>>

\* The values the struct can hold: each member any value of its bit-field
\* width, as sequences in the order of struct_fields, from member k on.
RECURSIVE ValueSeqs(_, _)
ValueSeqs(sfs, k) ==
    IF k > Len(sfs) THEN {<<>>}
    ELSE {<<v>> \o rest : v \in 0..(Pow2(sfs[k].bits) - 1),
                          rest \in ValueSeqs(sfs, k + 1)}

StructValues(sfs) ==
    {[n \in {sfs[k].name : k \in 1..Len(sfs)} |->
        q[CHOOSE k \in 1..Len(sfs) : sfs[k].name = n]] : q \in ValueSeqs(sfs, 1)}

\* The bytes the pack routine writes to: one past the highest piece byte.
BytesWritten(efs) ==
    LET bytes == UNION {{efs[k].field.pieces[j].byte + 1 :
                           j \in 1..Len(efs[k].field.pieces)} : k \in 1..Len(efs)}
    IN  IF bytes = {} THEN 0 ELSE CHOOSE m \in bytes : \A n \in bytes : n <= m

\* <bit_struct>_encode(bin, ...) on a zeroed buffer of num_bytes bytes.  A
\* write past the end of the buffer is undefined behaviour: the build
\* either lets it land in the memory after the buffer and returns, or the
\* program is stopped at the write.
Encode ==
    /\ pcB = "built"
    /\ \E s \in StructValues(bs.struct_fields) :
          LET efs  == encode_fields(BitSets[the_set], field_mappings)
              size == Max(bs.num_bytes, BytesWritten(efs))
              r    == struct_encode([k \in 1..size |-> 0], efs, s)
          IN  /\ values' = s
              /\ IF r.err /= ""
                 THEN /\ pcB' = "aborted"
                      /\ UNCHANGED <<buf, ret>>
                 ELSE IF size > bs.num_bytes
                 THEN \/ /\ pcB' = "undefined"
                         /\ buf' = SubSeq(r.bin, 1, bs.num_bytes)
                         /\ ret' = r.ret
                      \/ /\ pcB' = "crashed"
                         /\ UNCHANGED <<buf, ret>>
                 ELSE /\ pcB' = "packed"
                      /\ buf' = r.bin
                      /\ ret' = r.ret
    /\ UNCHANGED <<the_set, field_mappings, bs>>
    /\ UNCHANGED disVars
    /\ UNCHANGED encVars
    /\ UNCHANGED emVars
    /\ UNCHANGED <<testVars, margeVars, regVars, mapVars, lateVars>>

NextBS == AddMapping \/ BitStruct \/ Encode

SpecBS == InitBS /\ [][NextBS]_vars

-----------------------------------------------------------------------------
(* Properties of bit struct construction and packing.                      *)

\* The bit positions (byte * 8 + bit) of the pieces of mapping k.
MappedBits(k) ==
    LET field == FieldOf(BitSets[the_set], field_mappings[k].field)
    IN  [j \in 1..Len(field.pieces) |->
            (8 * field.pieces[j].byte + field.pieces[j].lo_bit) ..
            (8 * field.pieces[j].byte + field.pieces[j].hi_bit)]

\* Every (mapping, piece) pair of the struct.
PieceIds ==
    {<<k, j>> \in (1..Len(field_mappings)) \X (1..3) : j <= Len(MappedBits(k))}

\* The sum of the widths of the mapped fields.
RECURSIVE TotalWidth(_)
TotalWidth(k) ==
    IF k = 0 THEN 0
    ELSE TotalWidth(k - 1) +
         FieldOf(BitSets[the_set], field_mappings[k].field).field_type.num_bits

\* C2: in every bit struct that construction accepts, each bit position is
\* claimed by at most one field piece across all the field mappings.
C2_PiecesDisjoint ==
    pcB = "built" =>
        \A p, q \in PieceIds :
            p /= q => MappedBits(p[1])[p[2]] \cap MappedBits(q[1])[q[2]] = {}

\* C3: the total bit width of the fields of an accepted bit struct is a
\* multiple of eight, its byte size is that total divided by eight, and
\* the pack routine returns exactly that byte count.
C3_ByteAligned ==
    /\ pcB \in {"built", "packed", "undefined"} =>
          /\ TotalWidth(Len(field_mappings)) % 8 = 0
          /\ bs.num_bytes * 8 = TotalWidth(Len(field_mappings))
    /\ pcB \in {"packed", "undefined"} => ret = bs.num_bytes

C3_Witness ==
    /\ pcB = "packed"
    /\ Len(field_mappings) = 7
    /\ bs.num_bytes = 2
    /\ ret = 2

\* The bit positions that are set in the packed buffer.
BufBits ==
    UNION {{8 * (b - 1) + k : k \in BitsOfByte(buf[b])} : b \in 1..Len(buf)}

\* The bit positions of mapping k from its least significant bit up: the
\* last piece first, each piece from lo_bit to hi_bit.
RECURSIVE PositionsFrom(_, _)
PositionsFrom(k, j) ==
    IF j = 0 THEN <<>>
    ELSE LET piece == FieldOf(BitSets[the_set], field_mappings[k].field).pieces[j]
         IN  [n \in 1..piece.num_bits |-> 8 * piece.byte + piece.lo_bit + n - 1]
             \o PositionsFrom(k, j - 1)

\* The value the buffer holds at the pieces of mapping k.
Packed(k) ==
    LET pos == PositionsFrom(k, Len(MappedBits(k)))
    IN  IntOf({n - 1 : n \in {m \in 1..Len(pos) : pos[m] \in BufBits}})

\* The value mapping k is packed from, as its field type encodes it.
Wanted(k) ==
    LET ef == encode_fields(BitSets[the_set], field_mappings)[k]
    IN  EncodeOf(ef.field.field_type,
                 IF ef.sf /= "" THEN values[ef.sf] ELSE ef.val)

\* The example of C7: cond = 1 and end = true in the 2-byte struct.
C7_Scenario ==
    (/\ pcB = "packed"
     /\ the_set = "cond"
     /\ Len(field_mappings) = 4
     /\ values = [end |-> 1, cond |-> 1])
    => (buf = <<0, 129>> /\ ret = 2)

\* C7: after packing into a zeroed buffer, the pieces of every field hold
\* the bits of that field's value and every other bit is zero; with
\* cond = 1 and end = true the 2-byte example struct packs to byte 0 = 0,
\* byte 1 = 0b10000001 and the routine returns 2.
C7_PackPlacement ==
    /\ pcB = "packed" =>
          /\ \A k \in 1..Len(field_mappings) : Packed(k) = Wanted(k)
          /\ BufBits \subseteq
                UNION {MappedBits(p[1])[p[2]] : p \in PieceIds}
    /\ C7_Scenario

\* The example struct has been packed with cond = 1 and end = true.
C7_ScenarioReached ==
    /\ pcB = "packed"
    /\ the_set = "cond"
    /\ Len(field_mappings) = 4
    /\ values = [end |-> 1, cond |-> 1]

\* The encode_fields of the struct with entries a and b exchanged.
Exchanged(efs, a, b) ==
    [k \in 1..Len(efs) |-> IF k = a THEN efs[b] ELSE IF k = b THEN efs[a] ELSE efs[k]]

\* The encode_fields of the struct in reverse order.
Reversed(efs) == [k \in 1..Len(efs) |-> efs[Len(efs) + 1 - k]]

\* The bytes the struct packs to when its fields are encoded in the order
\* of efs, into a zeroed buffer.
PackedIn(efs) == struct_encode([k \in 1..Len(buf) |-> 0], efs, values).bin

\* C18: the order of field application does not matter when packing:
\* encoding the fields of a bit struct in another order (any two fields
\* exchanged, or all of them reversed) produces the same bytes, and
\* encoding one field changes no bit outside that field's own pieces.
C18_OrderIrrelevant ==
    pcB = "packed" =>
        LET efs == encode_fields(BitSets[the_set], field_mappings)
        IN  /\ PackedIn(Reversed(efs)) = buf
            /\ \A a, b \in 1..Len(efs) : a < b => PackedIn(Exchanged(efs, a, b)) = buf
            /\ \A k \in 1..Len(efs), v \in 0..1 :
                  LET r == encode_field(buf, efs[k].field, v)
                  IN  \A byte \in 1..Len(buf) :
                        \A bit \in 0..7 :
                           (8 * (byte - 1) + bit) \notin UNION {MappedBits(k)[j] :
                                                       j \in 1..Len(MappedBits(k))}
                           => ((bit \in BitsOfByte(r.bin[byte])) <=>
                               (bit \in BitsOfByte(buf[byte])))

\* The same, on the accepted structs whose pieces are pairwise disjoint.
C18_OrderIrrelevantWhenDisjoint ==
    (\A p, q \in PieceIds :
        p /= q => MappedBits(p[1])[p[2]] \cap MappedBits(q[1])[q[2]] = {})
    => C18_OrderIrrelevant

\* The literal of mapping k is a legal element or bit pattern of its field.
LegalLiteral(k) ==
    LET field == FieldOf(BitSets[the_set], field_mappings[k].field)
        t     == field.field_type
        v     == field_mappings[k].fixed[1]
    IN  /\ field.reserved = <<>>
        /\ IF v.k = "str"
           THEN t.base_type = "enum" /\ v.s \in ElemNames(t)
           ELSE v.n \in 0..(Pow2(t.num_bits) - 1)

\* C15, literal legality: in every bit struct that construction accepts,
\* the literal of each mapping that has one is a legal element or bit
\* pattern of the field's type: a named literal is an element of the
\* field's enum, a numeric or boolean literal is a value of num_bits bits,
\* and the field has no reserved value.
C15_LiteralLegal ==
    (pcB /= "author" /\ bs.err = "") =>
        \A k \in 1..Len(field_mappings) :
            field_mappings[k].fixed /= <<>> => LegalLiteral(k)

\* The value the caller supplies for mapping k.
Supplied(k) ==
    LET ef == encode_fields(BitSets[the_set], field_mappings)[k]
    IN  IF ef.sf /= "" THEN values[ef.sf] ELSE ef.val

\* The mappings whose field type declares both a check and an encode.
CheckedMappings ==
    {k \in 1..Len(field_mappings) :
        LET t == FieldOf(BitSets[the_set], field_mappings[k].field).field_type
        IN  t.check /= "" /\ t.encode /= ""}

\* The supplied values a checked type accepts: uint2_pos_inc takes 1..4
\* and stores them as 0..3 in its two bits.
Admitted(t) == IF t.name = "uint2_pos_inc" THEN 1..4 ELSE {}

\* C13 as stated: the encode transform comes first and the check is taken
\* on its result, so a pack is completed exactly when the encoded value of
\* every such field passes the check and fits the field.
C13_EncodeBeforeCheck ==
    (pcB \in {"packed", "aborted"} /\ CheckedMappings /= {}) =>
        (pcB = "packed" <=>
            \A k \in CheckedMappings :
                LET field == FieldOf(BitSets[the_set], field_mappings[k].field)
                    enc_val == EncodeOf(field.field_type, Supplied(k))
                IN  enc_val \in Admitted(field.field_type) /\ enc_val < 4)

\* C13, order of check and encode: the check is asserted on the value the
\* caller supplies, then the encode transform is applied and its result is
\* asserted to fit the field; a pack is completed exactly when the
\* supplied value of every such field passes the check and its encoded
\* value fits, and the field then holds the encoded value.
C13_CheckBeforeEncode ==
    (pcB \in {"packed", "aborted"} /\ CheckedMappings /= {}) =>
        /\ pcB = "packed" <=>
              \A k \in CheckedMappings :
                  LET field == FieldOf(BitSets[the_set], field_mappings[k].field)
                  IN  Supplied(k) \in Admitted(field.field_type)
        /\ pcB = "packed" =>
              \A k \in CheckedMappings : Packed(k) = Supplied(k) - 1

\* rpt = 1 has been packed: it passes the check as supplied, and its
\* encoded value 0 would not.
C13_Witness ==
    /\ pcB = "packed"
    /\ the_set = "igrp_hdr"
    /\ CheckedMappings /= {}
    /\ values.rpt = 1
    /\ buf = <<0>>

-----------------------------------------------------------------------------
(* pco_map.py: encode_map, and the structs of pco_isa.py it refers to.     *)

\* The field mappings of I_SNGL and I_SNGL_EXT.
I_SNGL ==
    << Mapping("main_op", "main_op", <<Lit("str", "sngl", 0)>>),
       Mapping("ext0", "ext0", <<Lit("int", "", 0)>>),
       Mapping("sngl_op", "sngl_op", <<>>) >>

I_SNGL_EXT ==
    << Mapping("main_op", "main_op", <<Lit("str", "sngl", 0)>>),
       Mapping("ext0", "ext0", <<Lit("int", "", 1)>>),
       Mapping("sngl_op", "sngl_op", <<>>),
       Mapping("rsvd1", "rsvd1_sngl", <<>>),
       Mapping("rsvd1_", "rsvd1_sngl_", <<>>),
       Mapping("s0neg", "s0neg_sngl", <<>>),
       Mapping("s0abs", "s0abs_sngl", <<>>) >>

\* The bit structs by name, in the order they are declared.
IsaOpNames == <<"sngl", "sngl_ext">>
IsaOps == [sngl |-> I_SNGL, sngl_ext |-> I_SNGL_EXT]

\* A value spec: an enum element name, or (ref mod, SRC(index)).
Elem(e) == [k |-> "str", s |-> e, mod |-> "", index |-> 0]
RefMod(mod, index) == [k |-> "ref", s |-> "", mod |-> mod, index |-> index]

\* A guard condition (ref mod, SRC(index), cond).
Cond(mod, index, cond) == [mod |-> mod, index |-> index, cond |-> cond]

\* An encoding variant (isa_op, isa_op_fields[, isa_op_conds]); the
\* two-element tuple has conds = <<>>.
Variant(isa_op, fields, conds) ==
    [isa_op |-> isa_op, fields |-> fields, conds |-> conds]

\* The two encodings every single-source op of pco_map.py declares: the
\* extended struct by default, the short one when neg and abs are false.
SnglEncodings(ext_op, short_op) ==
    << Variant("sngl_ext",
               << <<"sngl_op", Elem(ext_op)>>,
                  <<"s0neg", RefMod("neg", 0)>>,
                  <<"s0abs", RefMod("abs", 0)>> >>, <<>>),
       Variant("sngl", << <<"sngl_op", Elem(short_op)>> >>,
               << Cond("neg", 0, "== false"), Cond("abs", 0, "== false") >>) >>

\* The encodings argument of each encode_map call.  flog has no encode
\* mapping in pco_map.py: its list has three variants, the shape the
\* two-variant lists of the table do not cover.
OpNames == <<"frcp", "mbyp", "fdsx", "fdsxf", "fdsy", "fdsyf", "flog">>

OpEncodings ==
    [frcp  |-> SnglEncodings("rcp", "rcp"),
     mbyp  |-> SnglEncodings("byp", "byp"),
     fdsx  |-> SnglEncodings("dsx", "dsx"),
     fdsxf |-> SnglEncodings("dsxf", "dsx"),
     fdsy  |-> SnglEncodings("dsy", "dsy"),
     fdsyf |-> SnglEncodings("dsyf", "dsy"),
     flog  |-> SnglEncodings("log", "log") \o
               << Variant("sngl_ext",
                          << <<"sngl_op", Elem("log")>>,
                             <<"s0neg", RefMod("neg", 0)>>,
                             <<"s0abs", RefMod("abs", 0)>> >>,
                          << Cond("abs", 0, "== false") >>) >>]

\* Every struct field is specced; other fields may be as well.
field_spec_covers(v) ==
    LET sfs == bit_struct(I_MAIN, IsaOps[v.isa_op]).struct_fields
    IN  {sfs[k].name : k \in 1..Len(sfs)} \subseteq
        {v.fields[k][1] : k \in 1..Len(v.fields)}

\* "Ensure we're speccing everything in the op fields."
field_spec_ok(v) ==
    LET sfs == bit_struct(I_MAIN, IsaOps[v.isa_op]).struct_fields
    IN  {sfs[k].name : k \in 1..Len(sfs)} =
        {v.fields[k][1] : k \in 1..Len(v.fields)}

\* conds_variant: '' for the default variant, 'if (' for the first
\* variant after it and 'else if (' for the others, compared by value.
conds_keyword(encodings, k) ==
    IF encodings[k] = encodings[1] THEN ""
    ELSE IF Len(encodings) > 1 /\ encodings[k] = encodings[2] THEN "if"
    ELSE "else if"

\* encode_map(op, encodings, op_ref_maps): the (variant, encode_variant,
\* conds_variant) list, or the assertion that failed.
encode_map(encodings) ==
    [err |-> IF \A k \in 1..Len(encodings) : field_spec_ok(encodings[k])
             THEN "" ELSE "invalid_field_spec",
     variants |-> [k \in 1..Len(encodings) |->
                     [variant |-> encodings[k].isa_op,
                      fields |-> encodings[k].fields,
                      keyword |-> conds_keyword(encodings, k),
                      conds |-> encodings[k].conds]]]

\* One guard condition on the instruction: {1}->src[index].<mod> <cond>.
cond_holds(c, mods) ==
    IF c.cond = "== false" THEN mods[c.mod] = FALSE ELSE mods[c.mod] = TRUE

conds_hold_any(conds, mods) ==
    \E k \in 1..Len(conds) : cond_holds(conds[k], mods)

\* The conditions of a variant are joined with ' && '.
conds_hold(conds, mods) ==
    \A k \in 1..Len(conds) : cond_holds(conds[k], mods)

\* The generated variant selection: the if / else if chain of the guarded
\* variants in their order, and the default variant after it.
RECURSIVE select_from(_, _, _)
select_from(variants, k, mods) ==
    IF k > Len(variants) THEN 1
    ELSE IF variants[k].keyword /= "" /\ conds_hold(variants[k].conds, mods)
    THEN k
    ELSE select_from(variants, k + 1, mods)

select_variant(variants, mods) == select_from(variants, 2, mods)

\* encode_variant: the struct the variant's encode call is given.
variant_struct(v, mods) ==
    [n \in {v.fields[k][1] : k \in 1..Len(v.fields)} |->
        LET spec == v.fields[CHOOSE k \in 1..Len(v.fields) : v.fields[k][1] = n][2]
            m    == IsaOps[v.variant][CHOOSE k \in 1..Len(IsaOps[v.variant]) :
                                         IsaOps[v.variant][k].sf = n]
        IN  IF spec.k = "str"
            THEN ElemValue(FieldOf(I_MAIN, m.field).field_type, spec.s)
            ELSE IF mods[spec.mod] THEN 1 ELSE 0]

\* <isa_op>_encode(bin, ...) for the selected variant.
encode_variant(v, mods) ==
    LET maps == IsaOps[v.variant]
    IN  struct_encode([k \in 1..bit_struct(I_MAIN, maps).num_bytes |-> 0],
                      encode_fields(I_MAIN, maps), variant_struct(v, mods))

-----------------------------------------------------------------------------
(* Decoding through the same bit struct definitions.  The sources hold no  *)
(* decoder for these structs; this one follows the specification: the      *)
(* struct is the one whose fixed and reserved fields the bytes carry, the  *)
(* operation the first whose variant of that struct has the literals the   *)
(* bytes carry, the modifiers the fields bound to them (false if omitted). *)

RECURSIVE extract_from(_, _, _, _)
extract_from(bin, field, k, acc) ==
    IF k > Len(field.pieces) THEN acc
    ELSE LET piece == field.pieces[k]
         IN  extract_from(bin, field, k + 1,
                 acc * Pow2(piece.num_bits) +
                 ((bin[piece.byte + 1] \div Pow2(piece.lo_bit)) % Pow2(piece.num_bits)))

extract_field(bin, field) == extract_from(bin, field, 1, 0)

struct_matches(name, bin) ==
    LET efs == encode_fields(I_MAIN, IsaOps[name])
    IN  /\ Len(bin) = bit_struct(I_MAIN, IsaOps[name]).num_bytes
        /\ \A k \in 1..Len(efs) :
              efs[k].sf = "" => extract_field(bin, efs[k].field) = efs[k].val

\* The value the bytes carry for struct field n of struct name.
struct_value(name, n, bin) ==
    LET m == IsaOps[name][CHOOSE k \in 1..Len(IsaOps[name]) : IsaOps[name][k].sf = n]
    IN  extract_field(bin, FieldOf(I_MAIN, m.field))

variant_matches(v, name, bin) ==
    /\ v.isa_op = name
    /\ \A k \in 1..Len(v.fields) :
          v.fields[k][2].k = "str" =>
              struct_value(name, v.fields[k][1], bin) =
              ElemValue(F_SNGL_OP, v.fields[k][2].s)

\* The modifiers a variant reads back: those bound to a struct field.
variant_mods(v, name, bin) ==
    [m \in {"neg", "abs"} |->
        \E k \in 1..Len(v.fields) :
            /\ v.fields[k][2].k = "ref"
            /\ v.fields[k][2].mod = m
            /\ struct_value(name, v.fields[k][1], bin) = 1]

decode(bin) ==
    LET names == {n \in DOMAIN IsaOps : struct_matches(n, bin)}
        Hit(o, n) == {k \in 1..Len(OpEncodings[o]) :
                         variant_matches(OpEncodings[o][k], n, bin)}
        ops == {k \in 1..Len(OpNames) :
                   \E n \in names : Hit(OpNames[k], n) /= {}}
    IN  IF ops = {} THEN [op |-> "", mods |-> [neg |-> FALSE, abs |-> FALSE]]
        ELSE LET o == OpNames[CHOOSE k \in ops : \A j \in ops : k <= j]
                 n == CHOOSE n \in names : Hit(o, n) /= {}
                 v == OpEncodings[o][CHOOSE k \in Hit(o, n) :
                                        \A j \in Hit(o, n) : k <= j]
             IN  [op |-> o, mods |-> variant_mods(v, n, bin)]

-----------------------------------------------------------------------------
(* Encoding one instruction, then decoding its bytes.                      *)

InitEnc ==
    /\ IdleLate
    /\ IdleTest
    /\ IdleMarge
    /\ IdleReg
    /\ IdleMap
    /\ IdleDis
    /\ IdleBS
    /\ IdleEM
    /\ instr_op \in {OpNames[k] : k \in 1..Len(OpNames)}
    /\ instr_mods \in [{"neg", "abs"} -> BOOLEAN]
    /\ variant = 0
    /\ encoded = <<>>
    /\ decoded = [op |-> "", mods |-> [neg |-> FALSE, abs |-> FALSE]]
    /\ pcE = "select"

\* The variant selection of the op's encode mapping.
SelectVariant ==
    /\ pcE = "select"
    /\ encode_map(OpEncodings[instr_op]).err = ""
    /\ variant' = select_variant(encode_map(OpEncodings[instr_op]).variants,
                                 instr_mods)
    /\ pcE' = "encode"
    /\ UNCHANGED <<instr_op, instr_mods, encoded, decoded>>
    /\ UNCHANGED <<disVars, bsVars, emVars, testVars, margeVars, regVars, mapVars, lateVars>>

\* The encode call of the selected variant.
EncodeInstr ==
    /\ pcE = "encode"
    /\ encoded' = encode_variant(
                      encode_map(OpEncodings[instr_op]).variants[variant],
                      instr_mods).bin
    /\ pcE' = "decode"
    /\ UNCHANGED <<instr_op, instr_mods, variant, decoded>>
    /\ UNCHANGED <<disVars, bsVars, emVars, testVars, margeVars, regVars, mapVars, lateVars>>

DecodeInstr ==
    /\ pcE = "decode"
    /\ decoded' = decode(encoded)
    /\ pcE' = "done"
    /\ UNCHANGED <<instr_op, instr_mods, variant, encoded>>
    /\ UNCHANGED <<disVars, bsVars, emVars, testVars, margeVars, regVars, mapVars, lateVars>>

NextEnc == SelectVariant \/ EncodeInstr \/ DecodeInstr

SpecEnc == InitEnc /\ [][NextEnc]_vars

-----------------------------------------------------------------------------
(* Properties of encoding selection and of the round trip.                 *)

\* C1: decoding the bytes an instruction is encoded to, through the same
\* bit struct definitions, yields the operation and the modifiers that
\* were encoded (an omitted modifier reads back as its default, false).
C1_RoundTrip ==
    pcE = "done" => (decoded.op = instr_op /\ decoded.mods = instr_mods)

\* The guard of declared variant j (1-based; variant 1 is the default)
\* holds on the instruction: every one of its conditions does.
GuardHolds(j) ==
    \A c \in {OpEncodings[instr_op][j].conds[k] :
                k \in 1..Len(OpEncodings[instr_op][j].conds)} :
        instr_mods[c.mod] = (c.cond = "== true")

\* C8: selection picks exactly one declared variant: the first guarded
\* variant, in declared order, whose conditions all hold, and the
\* unguarded default (the first of the list) when none does; it depends
\* on the operation and the modifier state only.
C8_SelectionTotal ==
    pcE \in {"encode", "decode", "done"} =>
        /\ variant \in 1..Len(OpEncodings[instr_op])
        /\ variant = 1 =>
              \A j \in 2..Len(OpEncodings[instr_op]) : ~GuardHolds(j)
        /\ variant > 1 =>
              /\ GuardHolds(variant)
              /\ \A j \in 2..(variant - 1) : ~GuardHolds(j)

C8_Witness ==
    /\ pcE = "done"
    /\ instr_op = "flog"
    /\ instr_mods = [neg |-> TRUE, abs |-> FALSE]
    /\ variant = 3

-----------------------------------------------------------------------------
(* pco_map.py: enum_map, and the mapping function generated from it.       *)

\* The enums of the mappings: elem (a bitset ref mod enum), logiop (an op
\* mod enum), maskw0 (a bitset field enum) and upck_elem, the 2-bit field
\* enum the first elem mapping names.
RM_ELEM == EnumType("elem",
    << <<"e0", 1>>, <<"e1", 2>>, <<"e2", 4>>, <<"e3", 8>> >>, TRUE, 0)

OM_LOGIOP == EnumType("logiop",
    << <<"or", 0>>, <<"and", 1>>, <<"xor", 2>>, <<"nor", 3>>,
       <<"nand", 4>>, <<"xnor", 5>> >>, FALSE, 0)

F_MASKW0 == EnumType("maskw0",
    << <<"e0", 1>>, <<"e1", 2>>, <<"e2", 4>>, <<"e3", 8>>, <<"eall", 15>> >>,
    TRUE, 4)

F_UPCK_ELEM == EnumType("upck_elem",
    << <<"e0", 0>>, <<"e1", 1>>, <<"e2", 2>>, <<"e3", 3>> >>, FALSE, 2)

EnumTypes == [elem |-> RM_ELEM, logiop |-> OM_LOGIOP,
              maskw0 |-> F_MASKW0, upck_elem |-> F_UPCK_ELEM]

\* a | b
BitOr(a, b) == IntOf(BitsOfByte(a) \cup BitsOfByte(b))

\* ' | '.join(...) of the values of the listed elements, from element k on.
RECURSIVE OrOfElems(_, _, _)
OrOfElems(t, list, k) ==
    IF k > Len(list) THEN 0
    ELSE BitOr(ElemValue(t, list[k]), OrOfElems(t, list, k + 1))

pass_zero_val_zero(enum_to, pass_zero) ==
    [err |-> "", val |-> IF pass_zero = <<>> THEN <<>> ELSE <<0>>]

\* pass_zero_val: None, str(pass_zero), the element or the '|' of the
\* listed elements; err names the assertion that failed.
pass_zero_val(enum_to, pass_zero) ==
    IF pass_zero = <<>> THEN [err |-> "", val |-> <<>>]
    ELSE LET pz == pass_zero[1]
         IN  IF pz.k = "int" THEN [err |-> "", val |-> <<pz.n>>]
             ELSE IF pz.k = "str"
             THEN IF pz.s \in ElemNames(enum_to)
                  THEN [err |-> "", val |-> <<ElemValue(enum_to, pz.s)>>]
                  ELSE [err |-> "invalid_pass_zero", val |-> <<>>]
             ELSE IF \A k \in 1..Len(pz.l) : pz.l[k] \in ElemNames(enum_to)
                  THEN [err |-> "", val |-> <<OrOfElems(enum_to, pz.l, 1)>>]
                  ELSE [err |-> "invalid_pass_zero", val |-> <<>>]

\* enum_map(enum_from, enum_to, mappings, pass_zero)
enum_map(from, to, mappings, pass_zero) ==
    LET enum_from == EnumTypes[from]
        enum_to   == EnumTypes[to]
        pzv       == pass_zero_val(enum_to, pass_zero)
        err ==
            IF ~(pass_zero = <<>> \/ enum_from.is_bitset)
            THEN "pass_zero_not_bitset"
            ELSE IF ~({mappings[k][1] : k \in 1..Len(mappings)}
                        \subseteq ElemNames(enum_from))
            THEN "invalid_enum_from"
            ELSE IF ~({mappings[k][2] : k \in 1..Len(mappings)}
                        \subseteq ElemNames(enum_to))
            THEN "invalid_enum_to"
            ELSE pzv.err
    IN  [enum_from |-> from, enum_to |-> to, pass_zero |-> pass_zero,
         mappings |-> IF err /= "" THEN <<>>
                      ELSE [k \in 1..Len(mappings) |->
                              <<ElemValue(enum_from, mappings[k][1]),
                                ElemValue(enum_to, mappings[k][2])>>],
         err |-> err,
         both_bitsets |-> enum_from.is_bitset /\ enum_to.is_bitset,
         pass_zero_val |-> IF err /= "" THEN <<>> ELSE pzv.val]

\* The generated mapping function.  Its template is not in the sources;
\* it follows the specification: a zero argument gives the pass-zero
\* value when one is declared; between two bitsets every set bit is
\* mapped and the results are or-ed; otherwise the value is looked up.  A
\* value without a mapping is unreachable code.
mapped_elem(em, v) ==
    LET hits == {k \in 1..Len(em.mappings) : em.mappings[k][1] = v}
    IN  IF hits = {} THEN <<>> ELSE <<em.mappings[CHOOSE k \in hits : TRUE][2]>>

RECURSIVE map_bits(_, _, _)
map_bits(em, val, b) ==
    IF b > 7 THEN [out |-> 0, err |-> ""]
    ELSE LET rest == map_bits(em, val, b + 1)
         IN  IF b \notin BitsOfByte(val) THEN rest
             ELSE IF mapped_elem(em, Pow2(b)) = <<>>
             THEN [out |-> 0, err |-> "unreachable"]
             ELSE [out |-> BitOr(mapped_elem(em, Pow2(b))[1], rest.out),
                   err |-> rest.err]

enum_map_apply(em, val) ==
    IF em.pass_zero_val /= <<>> /\ val = 0
    THEN [val |-> val, out |-> em.pass_zero_val[1], err |-> ""]
    ELSE IF em.both_bitsets
    THEN [val |-> val, out |-> map_bits(em, val, 0).out,
          err |-> map_bits(em, val, 0).err]
    ELSE IF mapped_elem(em, val) = <<>>
    THEN [val |-> val, out |-> 0, err |-> "unreachable"]
    ELSE [val |-> val, out |-> mapped_elem(em, val)[1], err |-> ""]

\* The arguments enum_map is called with.
MappingLists ==
    { << <<"e0", "e0">>, <<"e1", "e1">>, <<"e2", "e2">>, <<"e3", "e3">> >>,
      << <<"or", "e0">>, <<"and", "e1">>, <<"xor", "e2">>, <<"nor", "e3">> >> }

PassZero(k, n, str, l) == <<[k |-> k, n |-> n, s |-> str, l |-> l]>>

PassZeros ==
    { <<>>,
      PassZero("int", 0, "", <<>>),
      PassZero("str", 0, "e0", <<>>),
      PassZero("str", 0, "eall", <<>>),
      PassZero("list", 0, "", <<"e0">>),
      PassZero("list", 0, "", <<"e0", "e1", "e2", "e3">>) }

\* The values of an enum: every union of elements of a bitset, every
\* element otherwise.
ValuesOf(t) ==
    IF t.is_bitset
    THEN {OrOfElems(t, q, 1) : q \in UNION {[1..n -> ElemNames(t)] : n \in 0..2}}
    ELSE {ElemValue(t, e) : e \in ElemNames(t)}

InitEM ==
    /\ IdleLate
    /\ IdleTest
    /\ IdleMarge
    /\ IdleReg
    /\ IdleMap
    /\ IdleDis
    /\ IdleBS
    /\ IdleEnc
    /\ \E from \in {"elem", "logiop"}, to \in {"maskw0", "upck_elem"},
          ml \in MappingLists, pz \in PassZeros :
          emap = [enum_from |-> from, enum_to |-> to, mappings |-> ml,
                  pass_zero |-> pz, err |-> "", both_bitsets |-> FALSE,
                  pass_zero_val |-> <<>>]
    /\ mapped = [val |-> 0, out |-> 0, err |-> ""]
    /\ pcM = "author"

\* enum_map(...) at table construction.
EnumMap ==
    /\ pcM = "author"
    /\ emap' = enum_map(emap.enum_from, emap.enum_to, emap.mappings,
                        emap.pass_zero)
    /\ pcM' = IF emap'.err = "" THEN "declared" ELSE "failed"
    /\ UNCHANGED mapped
    /\ UNCHANGED <<disVars, bsVars, encVars, testVars, margeVars, regVars, mapVars, lateVars>>

\* A call of the generated mapping function.
MapValue ==
    /\ pcM = "declared"
    /\ \E val \in ValuesOf(EnumTypes[emap.enum_from]) :
          mapped' = enum_map_apply(emap, val)
    /\ pcM' = IF mapped'.err = "" THEN "mapped" ELSE "aborted"
    /\ UNCHANGED emap
    /\ UNCHANGED <<disVars, bsVars, encVars, testVars, margeVars, regVars, mapVars, lateVars>>

NextEM == EnumMap \/ MapValue

SpecEM == InitEM /\ [][NextEM]_vars

-----------------------------------------------------------------------------
(* Properties of the enum mappings.                                        *)

\* The default set a mapping declares: the elements its pass_zero names.
DeclaredDefault ==
    LET pz == emap.pass_zero[1]
        t  == EnumTypes[emap.enum_to]
    IN  IF pz.k = "int" THEN pz.n
        ELSE IF pz.k = "str" THEN ElemValue(t, pz.s)
        ELSE IntOf(UNION {BitsOfByte(ElemValue(t, pz.l[k])) : k \in 1..Len(pz.l)})

\* A zero has been mapped to a bitset field through a mapping that
\* declares a pass-zero default.
ZeroPassed ==
    /\ pcM = "mapped"
    /\ emap.pass_zero /= <<>>
    /\ EnumTypes[emap.enum_to].is_bitset
    /\ mapped.val = 0

\* An accepted mapping declares a pass-zero default only when its source
\* enum is a bitset.
PassZeroOnlyOnBitset ==
    (pcM \in {"declared", "mapped", "aborted"} /\ emap.pass_zero /= <<>>)
        => EnumTypes[emap.enum_from].is_bitset

\* C6 as stated: for a bitset enum field whose mapping declares a
\* pass-zero default, the value 0 yields exactly the declared default set
\* and never the empty set; the default can only be declared when the
\* source enum is a bitset.
C6_PassZeroNeverEmpty ==
    /\ ZeroPassed => (mapped.out = DeclaredDefault /\ mapped.out /= 0)
    /\ PassZeroOnlyOnBitset

\* C6 amended: the value 0 yields exactly the declared default, which is a
\* non-empty set when it is declared by element name or element list; a
\* default declared as the integer 0 yields the empty set.  The default
\* can only be declared when the source enum is a bitset.
C6_PassZeroDefault ==
    /\ ZeroPassed =>
          /\ mapped.out = DeclaredDefault
          /\ (mapped.out = 0) <=> (emap.pass_zero[1].k = "int" /\
                                   emap.pass_zero[1].n = 0)
    /\ PassZeroOnlyOnBitset

\* The elem -> maskw0 mapping of the table has mapped 0 to e0|e1|e2|e3.
C6_Witness ==
    /\ ZeroPassed
    /\ emap.enum_from = "elem"
    /\ emap.enum_to = "maskw0"
    /\ emap.pass_zero[1].l = <<"e0", "e1", "e2", "e3">>
    /\ mapped.out = 15

-----------------------------------------------------------------------------
(* test-disasm.py: the harness that checks disasm against an expectations  *)
(* file.  A case line is modelled by its bytes (lst) and the text after    *)
(* them (ref); lines are written the way the harness renders them (the     *)
(* bytes in lower-case hex, padded to 20 columns), so that two lines are   *)
(* equal when their bytes and their texts are.                             *)

MaxCases == 2

\* [0xCA, 0xFE, 0xBA, 0xBE] * 16
Padding == [k \in 1..64 |-> <<202, 254, 186, 190>>[((k - 1) % 4) + 1]]

\* padded = lst + [0xCA, 0xFE, 0xBA, 0xBE] * 16; raw = sum(x << (8 * i))
PaddedRaw(lst) == RawOf(lst \o Padding)

\* A 4-byte instruction with an exact bit in its third byte.
WideInstr ==
    Instruction("wide", <<4>>, [mask |-> {0, 17}, value |-> {0, 17}],
                <<>>, <<>>, <<>>, <<>>)

\* A 2-byte instruction with a flag, an enum modifier, a signed immediate
\* and a destination and a source whose encoding has a case without an
\* operand and a signed immediate with a shift.
MovInstr ==
    Instruction("mov", <<2>>, [mask |-> {0, 1}, value |-> {0}],
                <<Modifier("sat", "sat", "int", <<BitRange(2, 2)>>),
                  Modifier("mode", "mode", "mode", <<BitRange(3, 4)>>)>>,
                <<Operand("opt", <<BitRange(8, 11)>>)>>,
                <<Operand("opt", <<BitRange(12, 15)>>)>>,
                <<Immediate("offset", "signed", <<BitRange(5, 7)>>, 0)>>)

InstrNamed(n) == CHOOSE ins \in InstrPool : ins.name = n

\* The tables the harness is run with.
HarnessTables ==
    { <<InstrNamed("trap"), InstrNamed("add"), InstrNamed("any"), InstrNamed("ld")>>,
      <<WideInstr, InstrNamed("add"), InstrNamed("any")>>,
      <<MovInstr, InstrNamed("trap")>> }

\* The bytes of the case lines; the empty one is the line of an empty file.
CaseBytes ==
    { <<8, 0>>, <<21, 0>>, <<21, 128, 0, 0>>, <<0, 0>>, <<23, 0>>, <<21>>, <<>>,
      <<1, 0>>, <<229, 59>>, <<9, 214>>, <<25, 0>> }

\* The texts a case line can expect for its bytes.
CaseRefs(lst) == {disasm(instrs, PaddedRaw(lst)).asm, Unknown}

\* The second argument of the command line ("" when there is none).
Argv2 == {"", "-u", "--update", "-v"}

case_error_text_only(length, asm, lst, ref) == asm /= ref

\* error |= (length != len(lst)); error |= (actual[:-1] != case)
case_error(length, asm, lst, ref) == (length /= Len(lst)) \/ (asm /= ref)

InitTest ==
    /\ IdleLate
    /\ IdleBS
    /\ IdleEnc
    /\ IdleEM
    /\ IdleMarge
    /\ IdleReg
    /\ IdleMap
    /\ instrs \in HarnessTables
    /\ prog = <<>>
    /\ i = 0
    /\ pc = "idle"
    /\ last = NoResult
    /\ case_lines = <<>>
    /\ new_cases = <<>>
    /\ errors = FALSE
    /\ argv2 = ""
    /\ written = FALSE
    /\ exit_code = -1
    /\ pcT = "cases"

\* One iteration of the loop over the case lines.  An exception raised by
\* disasm ends the harness with a traceback and exit code 1.
RunCase ==
    /\ pcT = "cases"
    /\ Len(case_lines) < MaxCases
    /\ \E lst \in CaseBytes :
          \E ref \in CaseRefs(lst) :
             LET res == disasm(instrs, PaddedRaw(lst))
             IN  /\ case_lines' = Append(case_lines, [lst |-> lst, ref |-> ref])
                 /\ IF res.err
                    THEN /\ pcT' = "exited"
                         /\ exit_code' = 1
                         /\ UNCHANGED <<new_cases, errors>>
                    ELSE /\ new_cases' = Append(new_cases,
                                                [lst |-> lst, ref |-> res.asm])
                         /\ errors' = (errors \/
                                       case_error(res.length, res.asm, lst, ref))
                         /\ UNCHANGED <<pcT, exit_code>>
    /\ UNCHANGED <<argv2, written>>
    /\ UNCHANGED <<disVars, bsVars, encVars, emVars, margeVars, regVars, mapVars, lateVars>>

\* After the last line: the optional update, then the exit code.
Finish ==
    /\ pcT = "cases"
    /\ Len(case_lines) >= 1
    /\ \E a \in Argv2 :
          /\ argv2' = a
          /\ IF a = ""
             THEN /\ written' = FALSE
                  /\ exit_code' = IF errors THEN 1 ELSE 0
             ELSE IF a \in {"-u", "--update"}
             THEN /\ written' = TRUE
                  /\ exit_code' = IF errors THEN 1 ELSE 0
             ELSE /\ written' = FALSE
                  /\ exit_code' = 1
    /\ pcT' = "exited"
    /\ UNCHANGED <<case_lines, new_cases, errors>>
    /\ UNCHANGED <<disVars, bsVars, encVars, emVars, margeVars, regVars, mapVars, lateVars>>

NextTest == RunCase \/ Finish

SpecTest == InitTest /\ [][NextTest]_vars

-----------------------------------------------------------------------------
(* Properties of the harness.                                              *)

\* The case line c is what disasm gives for its padded bytes.
CaseMatches(c) ==
    LET res == disasm(instrs, PaddedRaw(c.lst))
    IN  ~res.err /\ res.length = Len(c.lst) /\ res.asm = c.ref

AllCasesMatch == \A k \in 1..Len(case_lines) : CaseMatches(case_lines[k])

\* C11 as stated: the harness exits with code 0 exactly when every case
\* line matches (decoded length = number of bytes, rendered line =
\* expected line), and with code 1 otherwise, whether or not the
\* expectations file was rewritten.
C11_ExitCode ==
    pcT = "exited" =>
        /\ exit_code \in {0, 1}
        /\ exit_code = 0 <=> AllCasesMatch

\* C11 amended: the harness exits with code 0 exactly when every case line
\* matches and the second argument is absent, -u or --update (the file is
\* rewritten exactly in the last two cases, if no case raised); any other
\* second argument ends it with code 1 after the cases have run.
C11_ExitCodeValidArgs ==
    pcT = "exited" =>
        /\ exit_code \in {0, 1}
        /\ exit_code = 0 <=>
              (AllCasesMatch /\ argv2 \in {"", "-u", "--update"})
        /\ written <=> (argv2 \in {"-u", "--update"})

\* The file has been rewritten and a case with a negated length made the
\* harness exit with code 1.
C11_Witness ==
    /\ pcT = "exited"
    /\ written
    /\ exit_code = 1
    /\ Len(case_lines) = 2
    /\ CaseMatches(case_lines[1])
    /\ disasm(instrs, PaddedRaw(case_lines[2].lst)).length < 0
    /\ disasm(instrs, PaddedRaw(case_lines[2].lst)).asm = case_lines[2].ref

\* The bytes lst are an instruction when nothing follows them: disasm
\* consumes exactly them.
IsInstruction(lst) ==
    LET res == disasm(instrs, RawOf(lst))
    IN  ~res.err /\ (res.length = Len(lst) \/ res.length = -Len(lst))

\* disasm gives the same length and text for lst followed by zeros and
\* for lst followed by the padding.
SameWithPadding(lst) ==
    /\ disasm(instrs, PaddedRaw(lst)).err = FALSE
    /\ disasm(instrs, PaddedRaw(lst)).length = disasm(instrs, RawOf(lst)).length
    /\ disasm(instrs, PaddedRaw(lst)).asm = disasm(instrs, RawOf(lst)).asm

MatchesWithin(n) ==
    \A k \in 1..Len(instrs) :
        /\ instrs[k].exact.mask \subseteq 0..(8 * n - 1)
        /\ instrs[k].length_spec /= <<>> =>
              BitsMask(instrs[k].length_spec[1].bits) \subseteq 0..(8 * n - 1)

-----------------------------------------------------------------------------
(* pco_pygen_common.py: the type and enum registries, and the calls that   *)
(* declare into them.  A failed assertion ends the generator: no call      *)
(* follows it.                                                             *)

MaxDecls == 3

RegNames == {"cc", "cc1"}

\* num_bits arguments; 0 is None.
NumBitsArgs == 0..3

\* d[k] = v
put(d, k, v) == [n \in DOMAIN d \cup {k} |-> IF n = k THEN v ELSE d[n]]

\* type(name, ...): "Duplicate type", else types[name] = t.
type(tys, name, t) ==
    IF name \in DOMAIN tys THEN [err |-> "duplicate_type", types |-> tys]
    ELSE [err |-> "", types |-> put(tys, name, t)]

\* The elems the enum declarations below are made with: two elements whose
\* values are assigned automatically.
auto_elems(is_bitset) ==
    IF is_bitset THEN << <<"a", 1>>, <<"b", 2>> >> ELSE << <<"a", 0>>, <<"b", 1>> >>

\* enum_type(name, elems, is_bitset, num_bits)
enum_type(tys, ens, name, is_bitset, num_bits) ==
    LET elems == auto_elems(is_bitset)
        t     == EnumType(name, elems, is_bitset, num_bits)
    IN  IF name \in DOMAIN ens
        THEN [err |-> "duplicate_enum", types |-> tys, enums |-> ens]
        ELSE IF \E k \in 1..Len(elems) :
                    ~(num_bits = 0 \/ val_fits_in_bits(elems[k][2], num_bits))
        THEN [err |-> "does_not_fit", types |-> tys, enums |-> ens]
        ELSE LET r == type(tys, name, t)
             IN  [err |-> r.err, types |-> r.types,
                  enums |-> put(ens, name, [name |-> name, is_bitset |-> is_bitset,
                                             parent |-> <<>>])]

narrower_or_equal(parent, num_bits) ==
    parent.num_bits /= 0 /\ parent.num_bits >= num_bits

\* parent.num_bits is not None and parent.num_bits > num_bits
narrower(parent, num_bits) ==
    parent.num_bits /= 0 /\ parent.num_bits > num_bits

\* enum_subtype(name, parent, num_bits); parent.enum is None for the types
\* that are not enums.
enum_subtype(tys, ens, name, parent, num_bits) ==
    IF name \in DOMAIN ens
    THEN [err |-> "duplicate_enum", types |-> tys, enums |-> ens]
    ELSE IF parent.base_type /= "enum"
    THEN [err |-> "parent_not_enum", types |-> tys, enums |-> ens]
    ELSE IF parent.is_bitset
    THEN [err |-> "parent_is_bitset", types |-> tys, enums |-> ens]
    ELSE IF ~narrower(parent, num_bits)
    THEN [err |-> "num_bits", types |-> tys, enums |-> ens]
    ELSE LET t == [EnumType(name, <<>>, FALSE, num_bits) EXCEPT !.parent = <<parent>>]
             r == type(tys, name, t)
         IN  [err |-> r.err, types |-> r.types,
              enums |-> put(ens, name, [name |-> name, is_bitset |-> FALSE,
                                         parent |-> <<parent.name>>])]

InitReg ==
    /\ IdleLate
    /\ IdleTest
    /\ IdleMarge
    /\ IdleMap
    /\ IdleDis
    /\ IdleBS
    /\ IdleEnc
    /\ IdleEM
    /\ types = <<>>
    /\ enums = <<>>
    /\ made = NoDecl

Running == made.err = "" /\ Cardinality(DOMAIN types) < MaxDecls

\* A scalar declaration: type(name, BaseType.uint, 2).
DeclType ==
    /\ Running
    /\ \E name \in RegNames \cup {"u"} :
          LET r == type(types, name, Type(name, "uint", 2, 0, "", ""))
          IN  /\ types' = r.types
              /\ made' = [call |-> "type", name |-> name, parent |-> "",
                          num_bits |-> 2, err |-> r.err]
    /\ UNCHANGED enums
    /\ UNCHANGED <<disVars, bsVars, encVars, emVars, testVars, margeVars, mapVars, lateVars>>

\* enum_type(name, elems, is_bitset, num_bits)
DeclEnum ==
    /\ Running
    /\ \E name \in RegNames, is_bitset \in BOOLEAN, num_bits \in NumBitsArgs :
          LET r == enum_type(types, enums, name, is_bitset, num_bits)
          IN  /\ types' = r.types
              /\ enums' = r.enums
              /\ made' = [call |-> "enum_type", name |-> name, parent |-> "",
                          num_bits |-> num_bits, err |-> r.err]
    /\ UNCHANGED <<disVars, bsVars, encVars, emVars, testVars, margeVars, mapVars, lateVars>>

\* enum_subtype(name, parent, num_bits), the parent any declared type.
DeclSubtype ==
    /\ Running
    /\ \E name \in RegNames, parent \in DOMAIN types, num_bits \in NumBitsArgs \ {0} :
          LET r == enum_subtype(types, enums, name, types[parent], num_bits)
          IN  /\ types' = r.types
              /\ enums' = r.enums
              /\ made' = [call |-> "enum_subtype", name |-> name, parent |-> parent,
                          num_bits |-> num_bits, err |-> r.err]
    /\ UNCHANGED <<disVars, bsVars, encVars, emVars, testVars, margeVars, mapVars, lateVars>>

NextReg == DeclType \/ DeclEnum \/ DeclSubtype

SpecReg == InitReg /\ [][NextReg]_vars

\* The step is a call of enum_subtype.
SubtypeCall == made'.call = "enum_subtype" /\ <<types, enums, made>>' /= <<types, enums, made>>

\* What a call of enum_subtype must refuse, and what it makes otherwise.
SubtypeOutcome ==
    LET p  == types[made'.parent]
        nb == made'.num_bits
        n  == made'.name
    IN  /\ (p.base_type /= "enum" \/ p.is_bitset \/ p.num_bits <= nb) => made'.err /= ""
        /\ made'.err = "" =>
              /\ n \in DOMAIN types' /\ n \in DOMAIN enums'
              /\ types'[n].base_type = "enum"
              /\ types'[n].num_bits = nb
              /\ ~types'[n].is_bitset /\ ~enums'[n].is_bitset
              /\ types'[n].parent = <<p>>
              /\ enums'[n].parent = <<p.name>>

\* C14 as stated: a failed enum_subtype registers nothing at all.
C14_NothingRegistered ==
    [][SubtypeCall =>
          /\ SubtypeOutcome
          /\ made'.err /= "" => (types' = types /\ enums' = enums)]_vars

\* C14: enum_subtype fails when the parent is not an enum, when the parent
\* enum is a bitset, or when num_bits is not strictly smaller than the
\* parent's; on success the new type is a non-bitset enum of num_bits bits
\* that records the parent.  A call that fails for one of these reasons, or
\* for a duplicate enum name, registers nothing; a call whose name is
\* already taken by a type that is not in enums fails after it has added
\* the new enum to enums, and adds nothing to types.
C14_EnumSubtype ==
    [][SubtypeCall =>
          /\ SubtypeOutcome
          /\ made'.err /= "" => types' = types
          /\ made'.err \notin {"", "duplicate_type"} => enums' = enums
          /\ made'.err = "duplicate_type" =>
                /\ made'.name \in DOMAIN types
                /\ made'.name \notin DOMAIN enums
                /\ DOMAIN enums' = DOMAIN enums \cup {made'.name}]_vars

\* cc1, one bit, has been made a subtype of the two-bit enum cc.
C14_Witness ==
    /\ made.call = "enum_subtype"
    /\ made.err = ""
    /\ "cc1" \in DOMAIN enums
    /\ enums["cc1"].parent = <<"cc">>
    /\ types["cc1"].num_bits = 1

-----------------------------------------------------------------------------
(* pco_map.py: encode_map called with encodings a table author may write.  *)

\* A numeric value spec.
IntSpec(n) == [k |-> "int", s |-> "", mod |-> "", index |-> n]

\* The (field, val_spec) pairs an encoding variant is written from, in the
\* order they may appear: the struct fields of sngl and sngl_ext, sngl_op a
\* second time, the pinned field main_op, the reserved field rsvd1 and a
\* name that is no field.
FieldSpecPool ==
    << <<"sngl_op", Elem("rcp")>>,
       <<"s0neg", RefMod("neg", 0)>>,
       <<"s0abs", RefMod("abs", 0)>>,
       <<"sngl_op", Elem("log")>>,
       <<"main_op", Elem("sngl")>>,
       <<"rsvd1", IntSpec(0)>>,
       <<"foo", IntSpec(0)>> >>

\* The sub-lists of FieldSpecPool from entry k on.
RECURSIVE FieldSpecLists(_)
FieldSpecLists(k) ==
    IF k > Len(FieldSpecPool) THEN {<<>>}
    ELSE LET rest == FieldSpecLists(k + 1)
         IN  rest \cup {<<FieldSpecPool[k]>> \o r : r \in rest}

InitMap ==
    /\ IdleLate
    /\ IdleTest
    /\ IdleMarge
    /\ IdleReg
    /\ IdleDis
    /\ IdleBS
    /\ IdleEnc
    /\ IdleEM
    /\ \E isa_op \in DOMAIN IsaOps, fields \in FieldSpecLists(1) :
          op_encodings = <<Variant(isa_op, fields, <<>>)>>
    /\ encode_maps = <<>>
    /\ pcA = "call"

\* encode_map(op, encodings, op_ref_maps): the assertion fails, or the
\* mapping is stored in encode_maps.
EncodeMap ==
    /\ pcA = "call"
    /\ LET r == encode_map(op_encodings)
       IN  IF r.err /= ""
           THEN /\ pcA' = "failed"
                /\ UNCHANGED encode_maps
           ELSE /\ pcA' = "done"
                /\ encode_maps' = <<r.variants>>
    /\ UNCHANGED op_encodings
    /\ UNCHANGED <<disVars, bsVars, encVars, emVars, testVars, margeVars, regVars, lateVars>>

NextMap == EncodeMap

SpecMap == InitMap /\ [][NextMap]_vars

\* The struct fields of the bit structs of pco_isa.py: the mapped fields
\* that are neither pinned to a literal nor reserved.
StructFieldNames(isa_op) ==
    IF isa_op = "sngl" THEN {"sngl_op"} ELSE {"sngl_op", "s0neg", "s0abs"}

\* The fields an encoding variant binds.
BoundFields(v) == {v.fields[k][1] : k \in 1..Len(v.fields)}

\* C16: encode_map accepts an encoding variant only if the set of fields
\* it assigns equals the set of struct fields of the variant's bit struct:
\* every struct field is bound and no pinned, reserved or unknown field is;
\* any other variant fails the call and nothing is stored.
C16_FieldSetEquality ==
    /\ pcA = "done" =>
          /\ \A k \in 1..Len(op_encodings) :
                BoundFields(op_encodings[k]) = StructFieldNames(op_encodings[k].isa_op)
          /\ Len(encode_maps) = 1
    /\ pcA = "failed" =>
          /\ \E k \in 1..Len(op_encodings) :
                BoundFields(op_encodings[k]) /= StructFieldNames(op_encodings[k].isa_op)
          /\ encode_maps = <<>>

\* A variant of sngl_ext binding exactly its three struct fields has been
\* accepted.
C16_Witness ==
    /\ pcA = "done"
    /\ op_encodings[1].isa_op = "sngl_ext"
    /\ Len(op_encodings[1].fields) = 3
    /\ Len(encode_maps) = 1

-----------------------------------------------------------------------------
(* bin/ci/marge_queue.py: MargeQueue.                                      *)

MaxAppends == 4

\* The assignment times a merge request may carry; 0 is None (no note
\* "assigned to @marge-bot" was found).
AssignedAt == 0..2

\* MargeMergeRequest: id and assigned_at.
MargeMergeRequest(id, assigned_at) == [id |-> id, assigned_at |-> assigned_at]

\* n_merge_requests_enqueued
n_merge_requests_enqueued ==
    Cardinality(DOMAIN elements_sorted) + Len(undetermined)

\* sorted(elements_sorted.items()), from the keys in 'keys' on.
RECURSIVE sorted_values(_, _)
sorted_values(d, keys) ==
    IF keys = {} THEN <<>>
    ELSE LET k == CHOOSE x \in keys : \A y \in keys : x <= y
         IN  <<d[k]>> \o sorted_values(d, keys \ {k})

\* sorted_queue
sorted_queue == sorted_values(elements_sorted, DOMAIN elements_sorted)

InitMarge ==
    /\ IdleLate
    /\ IdleTest
    /\ IdleReg
    /\ IdleMap
    /\ IdleDis
    /\ IdleBS
    /\ IdleEnc
    /\ IdleEM
    /\ elements_sorted = <<>>
    /\ undetermined = <<>>
    /\ appended = <<>>

\* queue.append(mr), for the next merge request of the project.
QueueAppend ==
    /\ Len(appended) < MaxAppends
    /\ \E at \in AssignedAt :
          LET mr == MargeMergeRequest(Len(appended) + 1, at)
          IN  /\ appended' = Append(appended, mr)
              /\ IF mr.assigned_at /= 0
                 THEN /\ elements_sorted' = put(elements_sorted, mr.assigned_at, mr)
                      /\ UNCHANGED undetermined
                 ELSE /\ undetermined' = Append(undetermined, mr)
                      /\ UNCHANGED elements_sorted
    /\ UNCHANGED <<disVars, bsVars, encVars, emVars, testVars, regVars, mapVars, lateVars>>

NextMarge == QueueAppend

SpecMarge == InitMarge /\ [][NextMarge]_vars

\* How many entries of the sequence q are the merge request mr.
Occurrences(q, mr) == Cardinality({k \in 1..Len(q) : q[k].id = mr.id})

\* C17: after any sequence of append calls with n merge requests,
\* n_merge_requests_enqueued equals n: every appended merge request is
\* present exactly once, in sorted_queue when its assignment time is known
\* and in undetermined when it is not, and none is lost.
C17_NoneLost ==
    /\ n_merge_requests_enqueued = Len(appended)
    /\ \A k \in 1..Len(appended) :
          IF appended[k].assigned_at /= 0
          THEN /\ Occurrences(sorted_queue, appended[k]) = 1
               /\ Occurrences(undetermined, appended[k]) = 0
          ELSE /\ Occurrences(sorted_queue, appended[k]) = 0
               /\ Occurrences(undetermined, appended[k]) = 1

-----------------------------------------------------------------------------
(* test/disasm.py: properties of the rendering, on the lines the harness   *)
(* has disassembled.                                                        *)

\* The instruction a line's bytes are matched to, with the truncated word.
MatchOf(c) == match_instr(instrs, PaddedRaw(c.lst))

\* The tokens of a list of fields, each rendered by F, with the ones that
\* render to nothing left out.
RECURSIVE Shown(_, _, _)
Shown(fields, F(_), k) ==
    IF k > Len(fields) THEN <<>>
    ELSE (IF F(fields[k]).t = "none" THEN <<>> ELSE <<F(fields[k])>>)
         \o Shown(fields, F, k + 1)

\* A modifier is rendered unless it is the length modifier, an enum
\* modifier whose value is the default element, or a flag that is 0.
ModRendered(mod, raw) ==
    LET v == IntOf(BitsExtract(mod.bits, raw))
    IN  /\ mod.name /= "length"
        /\ IF mod.kind \in DOMAIN Enums
           THEN ~(v \in DOMAIN Enums[mod.kind] /\ Enums[mod.kind][v] = "")
           ELSE v /= 0

\* The text C19 describes for a matched instruction.
Rendering(instr, raw) ==
    LET op(d)  == map_op(BitsExtract(d.bits, raw), d.kind, BitsSize(d.bits))
        dst(d) == IF op(d).t = "none" THEN Tok("str", "_", 0, <<>>) ELSE op(d)
        imm(f) == map_value(IntOf(BitsExtract(f.bits, raw)), f.kind, BitsSize(f.bits))
        mod(f) == IF ModRendered(f, raw)
                  THEN map_mod(IntOf(BitsExtract(f.bits, raw)), f) ELSE None
    IN  <<Tok("str", instr.display, 0, <<>>)>>
        \o [k \in 1..Len(instr.dests) |-> dst(instr.dests[k])]
        \o Shown(instr.sources, op, 1)
        \o Shown(instr.immediates, imm, 1)
        \o Shown(instr.modifiers, mod, 1)

\* C19, rendering order and omission: for a matched instruction disasm
\* produces the mnemonic, then the destinations, the sources, the
\* immediates and the modifiers, in that order, leaving out a source that
\* decodes to no operand, an enum modifier whose value is the default
\* element, a 1-bit flag that is 0 and the length modifier.
C19_RenderingOrder ==
    \A k \in 1..Len(new_cases) :
        LET m == MatchOf(new_cases[k])
        IN  m.instr > 0 =>
               new_cases[k].ref = Rendering(instrs[m.instr], m.raw)

\* mov with no destination operand, a source, the immediate and the flag,
\* and a line of add, which has the length modifier.
C19_Witness ==
    /\ Len(new_cases) = 2
    /\ new_cases[1].lst = <<229, 59>>
    /\ Len(new_cases[1].ref) = 5
    /\ new_cases[2].lst = <<1, 0>>
    /\ new_cases[2].ref = <<Tok("str", "mov", 0, <<>>), Tok("str", "_", 0, <<>>),
                            Tok("int", "", 0, <<>>)>>

\* The two's complement reading of the n-bit value v.
TwosComplement(v, n) == IF v < Pow2(n - 1) THEN v ELSE v - Pow2(n)

\* The signed immediates of the instruction's own fields decode as two's
\* complement.
SignedImmediatesOf(instr, raw) ==
    \A k \in 1..Len(instr.immediates) :
        LET f == instr.immediates[k]
            v == IntOf(BitsExtract(f.bits, raw))
            n == BitsSize(f.bits)
        IN  f.kind = "signed" =>
               map_value(v, f.kind, n).n = TwosComplement(v, n)

\* The case of an operand encoding that the operand value v selects
\* (0 when none does).
CaseOf(kind, v) ==
    LET ks == {k \in 1..Len(Encodings[kind]) :
                 (v \cap Encodings[kind][k].exact.mask) = Encodings[kind][k].exact.value}
    IN  IF ks = {} THEN 0 ELSE CHOOSE k \in ks : \A j \in ks : k <= j

\* The signed immediates of operand encodings decode as two's complement.
SignedOperandsOf(instr, raw) ==
    LET ops == instr.dests \o instr.sources
    IN  \A k \in 1..Len(ops) :
           LET v == BitsExtract(ops[k].bits, raw)
               c == CaseOf(ops[k].kind, v)
           IN  (c /= 0 /\ Encodings[ops[k].kind][c].kind /= <<>>
                       /\ Encodings[ops[k].kind][c].kind[1].kind = "signed") =>
                  LET f == Encodings[ops[k].kind][c].kind[1]
                      x == IntOf(BitsExtract(f.bits, v))
                      n == BitsSize(f.bits)
                      d == map_op(v, ops[k].kind, BitsSize(ops[k].bits)).n
                  IN  /\ d = TwosComplement(x, n)
                      /\ d >= -Pow2(n - 1) /\ d < Pow2(n - 1)

\* C20: a signed field of n bits whose extracted value is v decodes to v
\* when v < 2^(n-1) and to v - 2^n otherwise, so every decoded value lies
\* in [-2^(n-1), 2^(n-1)); this holds for the signed immediates of an
\* instruction and for those of operand encodings, with or without a
\* shift.
C20_SignedDecode ==
    \A k \in 1..Len(new_cases) :
        LET m == MatchOf(new_cases[k])
        IN  m.instr > 0 =>
               /\ SignedImmediatesOf(instrs[m.instr], m.raw)
               /\ SignedOperandsOf(instrs[m.instr], m.raw)

\* The part of C20 on the signed immediates of instructions.
C20_SignedImmediates ==
    \A k \in 1..Len(new_cases) :
        LET m == MatchOf(new_cases[k])
        IN  m.instr > 0 => SignedImmediatesOf(instrs[m.instr], m.raw)

-----------------------------------------------------------------------------
(* isa.py: Bits.extract and Bits.mask on one field.                         *)

MaxRanges == 2

\* The bit positions of the raw word.
WordPositions == 0..3

\* BitRange.parse: "a" or "a:b" with start <= end (the constructor's
\* assertion), start >= 0 (a range that has a mask).
Ranges == {BitRange(a, b) : <<a, b>> \in {p \in WordPositions \X WordPositions : p[1] <= p[2]}}

\* Bits.parse: one range per token, in the order written.
RECURSIVE RangeLists(_)
RangeLists(n) ==
    IF n = 0 THEN {<<>>}
    ELSE RangeLists(n - 1)
         \cup {Append(l, r) : l \in {q \in RangeLists(n - 1) : Len(q) = n - 1}, r \in Ranges}

InitBits ==
    /\ IdleDis /\ IdleBS /\ IdleEnc /\ IdleEM /\ IdleTest
    /\ IdleMarge /\ IdleReg /\ IdleMap /\ IdleGrp /\ IdleSel /\ IdleFT /\ IdleRW
    /\ the_bits \in RangeLists(MaxRanges)
    /\ word \in SUBSET WordPositions
    /\ accum = {}
    /\ mask_out = [ok |-> TRUE, val |-> {}]
    /\ the_exact = [mask |-> {}, value |-> {}]
    /\ merged = <<>>
    /\ pcX = "new"

\* Bits.extract(word)
Extract ==
    /\ pcX = "new"
    /\ accum' = BitsExtract(the_bits, word)
    /\ pcX' = "extracted"
    /\ UNCHANGED <<the_bits, word, mask_out, the_exact, merged>>
    /\ UNCHANGED <<disVars, bsVars, encVars, emVars, testVars, margeVars, regVars, mapVars, grpVars, selVars, ftVars, rwVars>>

\* Bits.mask(): the union, or the failed assertion.
Mask ==
    /\ pcX = "extracted"
    /\ mask_out' = IF BitsMaskAssert(the_bits)
                   THEN [ok |-> TRUE, val |-> BitsMask(the_bits)]
                   ELSE [ok |-> FALSE, val |-> {}]
    /\ pcX' = "masked"
    /\ UNCHANGED <<the_bits, word, accum, the_exact, merged>>
    /\ UNCHANGED <<disVars, bsVars, encVars, emVars, testVars, margeVars, regVars, mapVars, grpVars, selVars, ftVars, rwVars>>

NextBits == Extract \/ Mask

SpecBits == InitBits /\ [][NextBits]_vars

\* The sum of the segments of x, the i-th one weighted by the total size of
\* the ranges before it.
RECURSIVE SegmentSum(_, _, _, _)
SegmentSum(bits, x, k, n) ==
    IF k > Len(bits) THEN 0
    ELSE ((x \div Pow2(bits[k].start)) % Pow2(bits[k].size)) * Pow2(n)
         + SegmentSum(bits, x, k + 1, n + bits[k].size)

\* C21: Bits.extract concatenates the segments in declaration order, the
\* first range least significant: the result is the sum over i of
\* ((x >> start_i) mod 2^size_i) * 2^(size_0 + ... + size_(i-1)); it is
\* below 2^size() and no bit of x outside the ranges changes it.
C21_ExtractConcatenates ==
    pcX \in {"extracted", "masked"} =>
        /\ IntOf(accum) = SegmentSum(the_bits, IntOf(word), 1, 0)
        /\ IntOf(accum) < Pow2(BitsSize(the_bits))
        /\ \A w \in SUBSET WordPositions :
               w \cap BitsMask(the_bits) = word \cap BitsMask(the_bits) =>
                   SegmentSum(the_bits, IntOf(w), 1, 0) = IntOf(accum)

\* C21: an extraction through two ranges in descending order, both segments
\* non-zero and different, from a word with a set bit outside the ranges.
C21_Witness ==
    /\ pcX = "extracted"
    /\ Len(the_bits) = 2
    /\ the_bits[1].start > the_bits[2].start
    /\ the_bits[1].size /= the_bits[2].size
    /\ word \cap RangeMask(the_bits[1]) /= {}
    /\ word \cap RangeMask(the_bits[2]) /= {}
    /\ word \ BitsMask(the_bits) /= {}
    /\ accum /= {}

\* No bit position lies in two ranges of the list.
PairwiseDisjoint(bits) ==
    \A a, b \in 1..Len(bits) :
        a < b => RangeMask(bits[a]) \cap RangeMask(bits[b]) = {}

\* C22: Bits.mask() returns the bitwise OR of the masks of all ranges when
\* the ranges are pairwise disjoint, and fails its assertion exactly when
\* two ranges share a bit.
C22_MaskOrAssert ==
    pcX = "masked" =>
        /\ mask_out.ok <=> PairwiseDisjoint(the_bits)
        /\ mask_out.ok =>
              mask_out.val = {b \in WordPositions :
                                 \E k \in 1..Len(the_bits) :
                                     /\ the_bits[k].start <= b
                                     /\ b < the_bits[k].start + the_bits[k].size}

\* C22: a mask of two disjoint ranges that are not adjacent.
C22_Witness ==
    /\ pcX = "masked"
    /\ Len(the_bits) = 2
    /\ mask_out.ok
    /\ mask_out.val = {0, 1, 3}

\* C22: a mask() whose two ranges share one bit and whose assertion failed.
C22_WitnessOverlap ==
    /\ pcX = "masked"
    /\ Len(the_bits) = 2
    /\ the_bits[1] /= the_bits[2]
    /\ RangeMask(the_bits[1]) \cap RangeMask(the_bits[2]) /= {}
    /\ ~mask_out.ok

-----------------------------------------------------------------------------
(* isa.py: Exact, built from exact/zero elements and merged by union.       *)

MaxUnions == 2

\* parse_bitstring(bits): the last character is bit 0.
parse_bitstring(text) == {k \in 0..(Len(text) - 1) : text[Len(text) - k] = 1}

\* A deposit that leaves the value at the low bits.
deposit_low(mask, value) == value

\* deposit_bits(mask, value): the k-th set bit of mask, counted from the
\* least significant one, receives bit k of value.
deposit_bits(mask, value) ==
    {m \in mask : Cardinality({b \in mask : b < m}) \in value}

\* A union that keeps the value of the last Exact only.
union_last(self, other) ==
    [mask |-> self.mask \cup other.mask, value |-> other.value]

\* Exact.union(other)
union(self, other) ==
    [mask |-> self.mask \cup other.mask, value |-> self.value \cup other.value]

\* The texts of an exact element: one character per bit.
Texts == {<<0>>, <<1>>, <<0, 0>>, <<0, 1>>, <<1, 0>>, <<1, 1>>}

\* The exact and zero elements: a tag, the bit attribute and the text.
ExactElements ==
    {[tag |-> t, bits |-> b, text |-> x] :
        t \in {"exact", "zero"},
        b \in {l \in RangeLists(MaxRanges) : l /= <<>> /\ BitsSize(l) <= 2},
        x \in Texts}

\* Exact.__init__(el) raises: the assertion of Bits.mask or the one on the
\* length of the text.
ExactRaises(el) ==
    \/ ~BitsMaskAssert(el.bits)
    \/ el.tag /= "zero" /\ Len(el.text) /= Cardinality(BitsMask(el.bits))

\* Exact.__init__(el)
Exact(el) ==
    LET mask == BitsMask(el.bits)
        bits == IF el.tag /= "zero" THEN parse_bitstring(el.text) ELSE {}
    IN  [mask |-> mask, value |-> deposit_bits(mask, bits)]

InitExact ==
    /\ IdleDis /\ IdleBS /\ IdleEnc /\ IdleEM /\ IdleTest
    /\ IdleMarge /\ IdleReg /\ IdleMap /\ IdleGrp /\ IdleSel /\ IdleFT /\ IdleRW
    /\ the_bits = <<>>
    /\ word = {}
    /\ accum = {}
    /\ mask_out = [ok |-> TRUE, val |-> {}]
    /\ the_exact = [mask |-> {}, value |-> {}]
    /\ merged = <<>>
    /\ pcX = "exact"

\* self.exact.union(Exact(ch, {})) for one exact or zero child.
UnionExact ==
    /\ pcX = "exact"
    /\ Len(merged) < MaxUnions
    /\ \E el \in ExactElements :
          /\ ~ExactRaises(el)
          /\ the_exact' = union(the_exact, Exact(el))
          /\ merged' = Append(merged, Exact(el))
    /\ UNCHANGED <<the_bits, word, accum, mask_out, pcX>>
    /\ UNCHANGED <<disVars, bsVars, encVars, emVars, testVars, margeVars, regVars, mapVars, grpVars, selVars, ftVars, rwVars>>

NextExact == UnionExact

SpecExact == InitExact /\ [][NextExact]_vars

\* The Exact that results from merging the Exacts of seq in the order p.
RECURSIVE MergedInOrder(_, _, _)
MergedInOrder(seq, p, n) ==
    IF n = 0 THEN [mask |-> {}, value |-> {}]
    ELSE union(MergedInOrder(seq, p, n - 1), seq[p[n]])

\* C29: an Exact has no value bit outside its mask, after construction and
\* after every union; its mask and value are the OR of the masks and of the
\* values merged into it, so merging them in the opposite order gives the
\* same Exact.
C29_ValueWithinMask ==
    pcX = "exact" =>
        /\ the_exact.value \subseteq the_exact.mask
        /\ \A k \in 1..Len(merged) : merged[k].value \subseteq merged[k].mask
        /\ the_exact.mask = UNION {merged[k].mask : k \in 1..Len(merged)}
        /\ the_exact.value = UNION {merged[k].value : k \in 1..Len(merged)}
        /\ \A p \in Permutations(1..Len(merged)) :
               MergedInOrder(merged, p, Len(merged)) = the_exact

\* C29: two Exacts merged, the first with a value bit the second one's mask
\* holds as zero, and a mask that is not contiguous.
C29_Witness ==
    /\ pcX = "exact"
    /\ Len(merged) = 2
    /\ merged[1].value \cap merged[2].mask /= {}
    /\ merged[1].value \cap merged[2].value = {}
    /\ merged[2].value /= {}
    /\ merged[1].mask = {0, 2}

-----------------------------------------------------------------------------
(* pco_map.py: the header mappings group_map emits, and their execution.    *)
(* The template that prints the statements into the grouping function is    *)
(* not part of the sources; the statements run in the order of              *)
(* hdr_mappings, as the specification describes.                            *)

\* pco_ops.py: the op modifiers; nzdefault <<>> is None.
OpMods ==
    [exec_cnd |-> [unset |-> TRUE,  nzdefault |-> <<>>,  is_enum |-> TRUE],
     rpt      |-> [unset |-> TRUE,  nzdefault |-> <<1>>, is_enum |-> FALSE],
     end      |-> [unset |-> TRUE,  nzdefault |-> <<>>,  is_enum |-> FALSE],
     sat      |-> [unset |-> FALSE, nzdefault |-> <<>>,  is_enum |-> FALSE]]

ModValues == 0..2

\* The header fields a mapping has to bind (all but length and da), and
\* whether the field is an enum.
HdrFieldIsEnum == [cc |-> TRUE, rpt |-> FALSE]

\* The pairs of enum_maps with a header field type: (OM_EXEC_CND, F_CC).
HdrEnumMaps == {<<"exec_cnd", "cc">>}

\* A value spec: an op modifier or an integer literal.
ValSpecs ==
    {[mod |-> <<m>>, lit |-> 0] : m \in DOMAIN OpMods}
    \cup {[mod |-> <<>>, lit |-> v] : v \in 0..1}

\* The hdr field lists that pass the check on the set of fields.
HdrFieldLists ==
    {<<[field |-> f[1], val_spec |-> a], [field |-> f[2], val_spec |-> b]>> :
        f \in {<<"cc", "rpt">>, <<"rpt", "cc">>}, a \in ValSpecs, b \in ValSpecs}

\* pco_builder_ops.h.py: the builder stores the nzdefault for a zero.
built_mod(m, v) ==
    IF OpMods[m].nzdefault /= <<>> /\ v = 0 THEN OpMods[m].nzdefault[1] ELSE v

\* A reset to 0 whatever the modifier's nzdefault.
reset_zero(m) == 0

\* group_map: reset_val
reset_val(m) ==
    IF OpMods[m].nzdefault = <<>> THEN 0 ELSE OpMods[m].nzdefault[1]

\* group_map: an OpMod bound to an enum field needs an enum mapping.
hdr_raises(hdr_fields) ==
    \E k \in 1..Len(hdr_fields) :
        /\ hdr_fields[k].val_spec.mod /= <<>>
        /\ HdrFieldIsEnum[hdr_fields[k].field]
        /\ <<hdr_fields[k].val_spec.mod[1], hdr_fields[k].field>> \notin HdrEnumMaps

\* group_map: the statements of one hdr field.
hdr_statements(hf, is_self) ==
    IF hf.val_spec.mod = <<>>
    THEN <<[op |-> "assign", field |-> hf.field, mod |-> <<>>, val |-> hf.val_spec.lit]>>
    ELSE LET m == hf.val_spec.mod[1]
         IN  <<[op |-> "assign", field |-> hf.field, mod |-> <<m>>, val |-> 0]>>
             \o (IF OpMods[m].unset /\ is_self
                 THEN <<[op |-> "set_mod", field |-> "", mod |-> <<m>>, val |-> reset_val(m)]>>
                 ELSE <<>>)

\* group_map: hdr_mappings for the whole list.
RECURSIVE emit_hdr(_, _, _)
emit_hdr(hdr_fields, is_self, k) ==
    IF k > Len(hdr_fields) THEN <<>>
    ELSE hdr_statements(hdr_fields[k], is_self) \o emit_hdr(hdr_fields, is_self, k + 1)

InitGrp ==
    /\ IdleDis /\ IdleBS /\ IdleEnc /\ IdleEM /\ IdleTest
    /\ IdleMarge /\ IdleReg /\ IdleMap /\ IdleBits /\ IdleSel /\ IdleFT /\ IdleRW
    /\ \E s \in BOOLEAN, l \in HdrFieldLists, g \in [DOMAIN OpMods -> ModValues] :
          /\ gm = [is_self |-> s, hdr_fields |-> l,
                   mods |-> [m \in DOMAIN OpMods |-> built_mod(m, g[m])]]
          /\ instr_op_mods = [m \in DOMAIN OpMods |-> built_mod(m, g[m])]
    /\ hdr_mappings = <<>>
    /\ igrp_hdr = [cc |-> 0, rpt |-> 0, alutype |-> 0]
    /\ pcG = 0

\* group_map(op, hdr, enc_ops): the header part; alutype is appended as a
\* fixed value.
GroupMap ==
    /\ pcG = 0
    /\ IF hdr_raises(gm.hdr_fields)
       THEN /\ pcG' = -1
            /\ UNCHANGED hdr_mappings
       ELSE /\ hdr_mappings' =
                   Append(emit_hdr(gm.hdr_fields, gm.is_self, 1),
                          [op |-> "assign", field |-> "alutype", mod |-> <<>>, val |-> 1])
            /\ pcG' = 1
    /\ UNCHANGED <<gm, igrp_hdr, instr_op_mods>>
    /\ UNCHANGED <<disVars, bsVars, encVars, emVars, testVars, margeVars, regVars, mapVars, bitVars, selVars, ftVars, rwVars>>

\* The grouping function runs one emitted statement: an assignment to a
\* header field (of a literal, or of pco_instr_get_mod) or a
\* pco_instr_set_mod.
RunHdrMapping ==
    /\ pcG >= 1
    /\ pcG <= Len(hdr_mappings)
    /\ LET st == hdr_mappings[pcG]
       IN  IF st.op = "assign"
           THEN /\ igrp_hdr' = [igrp_hdr EXCEPT ![st.field] =
                                   IF st.mod = <<>> THEN st.val
                                   ELSE instr_op_mods[st.mod[1]]]
                /\ UNCHANGED instr_op_mods
           ELSE /\ instr_op_mods' = [instr_op_mods EXCEPT ![st.mod[1]] = st.val]
                /\ UNCHANGED igrp_hdr
    /\ pcG' = pcG + 1
    /\ UNCHANGED <<gm, hdr_mappings>>
    /\ UNCHANGED <<disVars, bsVars, encVars, emVars, testVars, margeVars, regVars, mapVars, bitVars, selVars, ftVars, rwVars>>

NextGrp == GroupMap \/ RunHdrMapping

SpecGrp == InitGrp /\ [][NextGrp]_vars

\* The binding of the hdr field list that names field f.
BindingOf(f) ==
    CHOOSE k \in 1..Len(gm.hdr_fields) : gm.hdr_fields[k].field = f

\* The number of statements run so far that read modifier m into a header
\* field.
Consumed(m) ==
    Cardinality({k \in 1..(pcG - 1) :
                    hdr_mappings[k].op = "assign" /\ hdr_mappings[k].mod = <<m>>})

\* Each step of the grouping function: a step that consumes a modifier gives the header field the value
\* the modifier has at that moment and leaves the modifier alone; when the
\* modifier is flagged unset and the op is grouped as itself, the very next
\* step resets the modifier to its default (its nzdefault, else 0) and
\* leaves the header alone; no other step touches a modifier.
ConsumeThenReset ==
    [][pcG >= 1 /\ pcG' = pcG + 1 =>
          LET st == hdr_mappings[pcG]
              m  == st.mod[1]
          IN  /\ (st.op = "assign" /\ st.mod /= <<>>) =>
                    /\ igrp_hdr'[st.field] = instr_op_mods[m]
                    /\ instr_op_mods' = instr_op_mods
                    /\ (OpMods[m].unset /\ gm.is_self) <=>
                          (/\ pcG < Len(hdr_mappings)
                           /\ hdr_mappings[pcG + 1].op = "set_mod"
                           /\ hdr_mappings[pcG + 1].mod = <<m>>)
              /\ st.op = "set_mod" =>
                    /\ pcG > 1
                    /\ hdr_mappings[pcG - 1].op = "assign"
                    /\ hdr_mappings[pcG - 1].mod = <<m>>
                    /\ OpMods[m].unset /\ gm.is_self
                    /\ instr_op_mods'[m] =
                          (IF OpMods[m].nzdefault /= <<>>
                           THEN OpMods[m].nzdefault[1] ELSE 0)
                    /\ \A o \in DOMAIN OpMods \ {m} :
                          instr_op_mods'[o] = instr_op_mods[o]
                    /\ igrp_hdr' = igrp_hdr
              /\ (st.op = "assign" /\ st.mod = <<>>) =>
                    instr_op_mods' = instr_op_mods]_vars

\* At every moment a modifier that is not flagged unset, or that
\* belongs to an op mapped onto other operations, or that has not been
\* consumed yet, has the value the builder gave it.
OthersUnchanged ==
    pcG >= 1 =>
        \A m \in DOMAIN OpMods :
            (~OpMods[m].unset \/ ~gm.is_self \/ Consumed(m) = 0) =>
                instr_op_mods[m] = gm.mods[m]

\* C23: unset-on-consume.  The header field first receives the modifier's
\* current value and only afterwards a modifier flagged unset, of an op
\* grouped as itself, is reset to its default (its nzdefault when it
\* declares one, otherwise 0); a modifier not flagged unset, or consumed
\* while the op is mapped onto other operations, is left unchanged.
C23_UnsetOnConsume == ConsumeThenReset /\ []OthersUnchanged

\* C23: rpt was 2 when the header's rpt field consumed it; the op is
\* grouped as itself, the field holds 2 and the modifier is back at its
\* nzdefault 1.
C23_Witness ==
    /\ pcG > Len(hdr_mappings)
    /\ gm.is_self
    /\ gm.hdr_fields[BindingOf("rpt")].val_spec.mod = <<"rpt">>
    /\ gm.mods["rpt"] = 2
    /\ igrp_hdr["rpt"] = 2
    /\ instr_op_mods["rpt"] = 1

-----------------------------------------------------------------------------
(* pco_map.py: the literals of the variants of one encode mapping.          *)

\* C24: within the encode mapping of the instruction's op, a field that the
\* default variant and a guarded variant both bind to a literal is bound to
\* the same literal by both, so the op the bytes identify does not depend
\* on the variant selected.
C24_SameOpcodeLiteral ==
    pcE \in {"encode", "decode", "done"} =>
        \A j \in 2..Len(OpEncodings[instr_op]) :
            \A a \in SeqRange(OpEncodings[instr_op][1].fields),
               b \in SeqRange(OpEncodings[instr_op][j].fields) :
                (a[1] = b[1] /\ a[2].k = "str" /\ b[2].k = "str") =>
                    a[2].s = b[2].s

-----------------------------------------------------------------------------
(* pco_map.py: the ops with a guarded variant, and the selection between    *)
(* their variants.  The selection chain is generated by a template that is  *)
(* not part of the sources; it is evaluated as the specification describes. *)

\* A field bound to a modifier or reference modifier, to a literal, to
\* !pco_ref_is_null of an operand, to an element mask through the enum
\* mapping with pass_zero = all elements, or to pco_ref_get_movw01.
OfMod(f, src)     == [field |-> f, kind |-> "mod", src |-> src, val |-> 0]
OfLit(f, v)       == [field |-> f, kind |-> "lit", src |-> "", val |-> v]
OfNotNull(f, src) == [field |-> f, kind |-> "not_null", src |-> src, val |-> 0]
OfElems(f, src)   == [field |-> f, kind |-> "elems", src |-> src, val |-> 0]

\* A guard condition: a value name, '==' or '<=', and the constant.
Guard(src, rel, v) == [src |-> src, rel |-> rel, val |-> v]

\* The encodings of the encode_map calls with two variants; bits gives the
\* width of the fields the guarded struct maps to a narrower subtype.
GuardedEncodings ==
    [fmad |->
       [fields |-> << OfMod("s0neg", "s0neg"), OfMod("s0abs", "s0abs"),
                      OfMod("s2neg", "s2neg"), OfMod("sat", "sat"),
                      OfMod("lp", "lp"), OfMod("s1abs", "s1abs"),
                      OfMod("s1neg", "s1neg"), OfMod("s2flr", "s2flr"),
                      OfMod("s2abs", "s2abs") >>,
        short  |-> << OfMod("s0neg", "s0neg"), OfMod("s0abs", "s0abs"),
                      OfMod("s2neg", "s2neg"), OfMod("sat", "sat") >>,
        bits   |-> <<>>,
        conds  |-> << Guard("lp", "==", 0), Guard("s1abs", "==", 0),
                      Guard("s1neg", "==", 0), Guard("s2flr", "==", 0),
                      Guard("s2abs", "==", 0) >>],
     frcp |->
       [fields |-> << OfLit("sngl_op", 0), OfMod("s0neg", "s0neg"),
                      OfMod("s0abs", "s0abs") >>,
        short  |-> << OfLit("sngl_op", 0) >>,
        bits   |-> <<>>,
        conds  |-> << Guard("s0neg", "==", 0), Guard("s0abs", "==", 0) >>],
     tst |->
       [fields |-> << OfMod("tst_op", "tst_op"), OfNotNull("pwen", "d1null"),
                      OfMod("type", "tst_type"), OfMod("p2end", "p2end"),
                      OfMod("elem", "s0elem") >>,
        short  |-> << OfMod("tst_op", "tst_op"), OfNotNull("pwen", "d1null") >>,
        bits   |-> << <<"tst_op", 3>> >>,
        conds  |-> << Guard("tst_op", "<=", 7), Guard("tst_type", "==", 0),
                      Guard("p2end", "==", 0), Guard("tst_type", "==", 0),
                      Guard("s0elem", "==", 0), Guard("s1elem", "==", 0) >>],
     movc |->
       [fields |-> << OfMod("movw0", "movw0"), OfMod("movw1", "movw1"),
                      OfElems("maskw0", "d0elem"), OfLit("aw", 0),
                      OfMod("p2end", "p2end") >>,
        short  |-> << OfMod("movw0", "movw0"), OfMod("movw1", "movw1") >>,
        bits   |-> <<>>,
        conds  |-> << Guard("d0elem", "==", 15), Guard("p2end", "==", 0) >>],
     add64_32 |->
       [fields |-> << OfMod("s", "s"), OfLit("int32_64_op", 0),
                      OfNotNull("cin", "s3null"),
                      OfMod("s0neg", "s0neg"), OfMod("s0abs", "s0abs"),
                      OfLit("s1neg", 0), OfLit("s1abs", 0),
                      OfMod("s2neg", "s2neg"), OfMod("s2abs", "s2abs") >>,
        short  |-> << OfMod("s", "s"), OfLit("int32_64_op", 0),
                      OfMod("s2neg", "s2neg") >>,
        bits   |-> <<>>,
        conds  |-> << Guard("s3null", "==", 1), Guard("s0neg", "==", 0),
                      Guard("s0abs", "==", 0), Guard("s2abs", "==", 0) >>],
     imadd64 |->
       [fields |-> << OfMod("s", "s"), OfLit("int32_64_op", 1),
                      OfNotNull("cin", "s4null"),
                      OfMod("s0neg", "s0neg"), OfMod("s0abs", "s0abs"),
                      OfMod("s1neg", "s1neg"), OfMod("s1abs", "s1abs"),
                      OfMod("s2neg", "s2neg"), OfMod("s2abs", "s2abs") >>,
        short  |-> << OfMod("s", "s"), OfLit("int32_64_op", 1),
                      OfMod("s2neg", "s2neg") >>,
        bits   |-> <<>>,
        conds  |-> << Guard("s4null", "==", 1), Guard("s0neg", "==", 0),
                      Guard("s0abs", "==", 0), Guard("s1neg", "==", 0),
                      Guard("s1abs", "==", 0), Guard("s2abs", "==", 0) >>]]

\* The values a name can take: a bool unless listed here (tst_op_main has
\* ten elements, tst_type_main seven, elem is a bitset of four).
SelValues(src) ==
    CASE src = "tst_op"   -> {0, 7, 8, 9}
      [] src = "tst_type" -> {0, 1, 6}
      [] src = "d0elem"   -> {0, 1, 15}
      [] src = "s0elem"   -> {0, 8}
      [] src = "s1elem"   -> {0, 8}
      [] OTHER            -> {0, 1}

\* The names an op's fields and guards read.
NamesOf(o) ==
    ({GuardedEncodings[o].fields[k].src : k \in 1..Len(GuardedEncodings[o].fields)}
     \cup {GuardedEncodings[o].conds[k].src : k \in 1..Len(GuardedEncodings[o].conds)})
    \ {""}

\* Every assignment of values to a set of names.
RECURSIVE Valuations(_)
Valuations(names) ==
    LET n == CHOOSE x \in names : TRUE
    IN  IF names = {n}
        THEN {(n :> v) : v \in SelValues(n)}
        ELSE {f @@ (n :> v) : f \in Valuations(names \ {n}), v \in SelValues(n)}

\* One condition of a guard: pco_instr_get_mod / pco_ref_get_mod compared
\* with the constant.
guard_cond(c, vals) ==
    IF c.rel = "==" THEN vals[c.src] = c.val ELSE vals[c.src] <= c.val

\* A guard that holds as soon as one of its conditions holds.
guard_any(conds, vals) ==
    \E k \in 1..Len(conds) : guard_cond(conds[k], vals)

\* The conditions of a guard are joined with ' && '.
guard_all(conds, vals) ==
    \A k \in 1..Len(conds) : guard_cond(conds[k], vals)

\* The value a binding puts into its field.
field_value(b, vals) ==
    CASE b.kind = "lit"      -> b.val
      [] b.kind = "mod"      -> vals[b.src]
      [] b.kind = "not_null" -> 1 - vals[b.src]
      [] b.kind = "elems"    -> IF vals[b.src] = 0 THEN 15 ELSE vals[b.src]

InitSel ==
    /\ IdleDis /\ IdleBS /\ IdleEnc /\ IdleEM /\ IdleTest
    /\ IdleMarge /\ IdleReg /\ IdleMap /\ IdleBits /\ IdleGrp /\ IdleFT /\ IdleRW
    /\ sel_op \in DOMAIN GuardedEncodings
    /\ sel_vals \in Valuations(NamesOf(sel_op))
    /\ sel_variant = 0

\* The selection chain of the op: the guarded variant (2) when its guard
\* holds, the default variant (1) otherwise.
Select ==
    /\ sel_op /= ""
    /\ sel_variant = 0
    /\ sel_variant' = IF guard_all(GuardedEncodings[sel_op].conds, sel_vals)
                      THEN 2 ELSE 1
    /\ UNCHANGED <<sel_op, sel_vals>>
    /\ UNCHANGED <<disVars, bsVars, encVars, emVars, testVars, margeVars, regVars, mapVars, bitVars, grpVars, ftVars, rwVars>>

NextSel == Select

SpecSel == InitSel /\ [][NextSel]_vars

\* The bindings of the default variant to fields the guarded variant lacks.
LostFields(o) ==
    {b \in SeqRange(GuardedEncodings[o].fields) :
        \A c \in SeqRange(GuardedEncodings[o].short) : c.field /= b.field}

\* The fields of the guarded variant that are narrower than the default's
\* hold the value the default variant would encode.
NarrowFieldsFit(o, vals) ==
    \A n \in SeqRange(GuardedEncodings[o].bits) :
        \A b \in SeqRange(GuardedEncodings[o].fields) :
            b.field = n[1] => field_value(b, vals) < Pow2(n[2])

\* C25 as stated: when the guarded variant is selected, every value the
\* default variant encodes in a field the guarded variant lacks is false, 0
\* or the null reference, and a value bound to a narrower field is
\* representable in it.
C25_LosesNothing ==
    sel_variant = 2 =>
        /\ \A b \in LostFields(sel_op) : field_value(b, sel_vals) = 0
        /\ NarrowFieldsFit(sel_op, sel_vals)

\* C25, amended: as above, except that the element mask maskw0 of movc,
\* which its guarded variant lacks, is the full mask 0b1111.
C25_LosesNothingButFullMask ==
    sel_variant = 2 =>
        /\ \A b \in LostFields(sel_op) :
               field_value(b, sel_vals) = (IF b.field = "maskw0" THEN 15 ELSE 0)
        /\ NarrowFieldsFit(sel_op, sel_vals)

\* C25: the guarded variant of tst was selected, with a test op of the
\* narrower field's range that is not 0.
C25_Witness ==
    /\ sel_op = "tst"
    /\ sel_variant = 2
    /\ sel_vals["tst_op"] = 7
    /\ sel_vals["d1null"] = 0

-----------------------------------------------------------------------------
(* pco_pygen_common.py: the bytes of an accepted bit struct.                *)

\* C26: in every bit struct that bit_struct accepts, every piece of every
\* mapped field lies in a byte index below num_bytes, so the pack routine
\* never writes outside the buffer of num_bytes bytes.
C26_PiecesWithinBuffer ==
    /\ pcB = "built" =>
          \A p \in PieceIds :
              \A b \in MappedBits(p[1])[p[2]] : b \div 8 < bs.num_bytes
    /\ pcB \notin {"undefined", "crashed"}

-----------------------------------------------------------------------------
(* test/disasm.py: match_instr on tables whose instructions declare their   *)
(* own length modifier.                                                     *)

\* A 2-byte instruction that names the shared length modifier although its
\* length list has a single entry, and one with a 2-bit length modifier of
\* its own over a list of two lengths: Instruction.__init__ takes both.
FixedInstr ==
    Instruction("nop", <<2>>, [mask |-> {0, 1}, value |-> {1}],
                <<DefLength>>, <<>>, <<>>, <<>>)

LongInstr ==
    Instruction("long", <<2, 4>>, [mask |-> {0, 1}, value |-> {0, 1}],
                <<Modifier("length", "length", "int", <<BitRange(14, 15)>>)>>,
                <<>>, <<>>, <<>>)

LengthTables ==
    {t \in UNION {[1..n -> InstrPool \cup {FixedInstr, LongInstr}] : n \in 1..MaxInstrs} :
        \A a, b \in DOMAIN t : a /= b => t[a].name /= t[b].name}

InitLen ==
    /\ IdleBS /\ IdleEnc /\ IdleEM /\ IdleTest
    /\ IdleMarge /\ IdleReg /\ IdleMap /\ IdleLate
    /\ instrs \in LengthTables
    /\ prog \in Programs
    /\ i = 0
    /\ pc = "match"
    /\ last = NoResult

\* match_instr(raw) on the word the program's bytes make; an IndexError of
\* the length lookup leaves no result.
MatchInstr ==
    /\ pc = "match"
    /\ LET m == match_instr(instrs, RawOf(prog))
       IN  /\ last' = [NoResult EXCEPT !.length = m.length, !.instr = m.instr,
                                       !.raw = m.raw, !.err = (m.instr = -1),
                                       !.ran = TRUE]
           /\ pc' = IF m.instr = -1 THEN "raised" ELSE "matched"
    /\ UNCHANGED <<instrs, prog, i>>
    /\ UNCHANGED <<bsVars, encVars, emVars, testVars, margeVars, regVars, mapVars, lateVars>>

NextLen == MatchInstr

SpecLen == InitLen /\ [][NextLen]_vars

\* The largest value of the instruction's length field is an index of its
\* length list.
LengthCovered(ins) ==
    \/ ins.length_spec = <<>>
    \/ Pow2(BitsSize(ins.length_spec[1].bits)) <= Len(ins.length)

-----------------------------------------------------------------------------
(* pco_isa.py: the scalar field types with an encode transform, and the     *)
(* assertions of encode_field on a value of one of them.  A value is the    *)
(* set of its set bit positions: val is a uint64_t.                         *)

\* num_bits and dec_bits of the four types.
EncodedTypes ==
    [uint2_pos_inc  |-> [num_bits |-> 2,  dec_bits |-> 3],
     uint4_pos_wrap |-> [num_bits |-> 4,  dec_bits |-> 5],
     offset31       |-> [num_bits |-> 31, dec_bits |-> 32],
     uint6mul4      |-> [num_bits |-> 6,  dec_bits |-> 8]]

\* The values tried for each type: every value of dec_bits + 1 bits for the
\* three narrow types; for offset31 the values made of the two lowest bits
\* and of bits 30 to 33.
SampleBits(t) ==
    IF t = "offset31" THEN {0, 1, 30, 31, 32, 33}
    ELSE 0..EncodedTypes[t].dec_bits

\* An encode that stores the value as it is.
encode_none(t, v) == v

\* field_type.encode: '{} - 1', '{} % 16', '{} >> 1', '{} >> 2'.
encode(t, v) ==
    CASE t = "uint2_pos_inc"  -> BitsOfByte(IntOf(v) - 1)
      [] t = "uint4_pos_wrap" -> {b \in v : b < 4}
      [] t = "offset31"       -> {b - 1 : b \in v \ {0}}
      [] t = "uint6mul4"      -> {b - 2 : b \in v \ {0, 1}}

\* field_type.check: '{0} >= 1 && {0} <= 4', '{0} >= 1 && {0} <= 16',
\* '!({} & 0b1)', '!({} & 0b11)'.
check(t, v) ==
    CASE t = "uint2_pos_inc"  -> v /= {} /\ (\A b \in v : b <= 2) /\ IntOf(v) <= 4
      [] t = "uint4_pos_wrap" -> v /= {} /\ (\A b \in v : b <= 4) /\ IntOf(v) <= 16
      [] t = "offset31"       -> 0 \notin v
      [] t = "uint6mul4"      -> v \cap {0, 1} = {}

\* val_fits_in_bits on a set of bit positions.
FitsIn(v, n) == \A b \in v : b < n

InitFT ==
    /\ IdleDis /\ IdleBS /\ IdleEnc /\ IdleEM /\ IdleTest
    /\ IdleMarge /\ IdleReg /\ IdleMap /\ IdleBits /\ IdleGrp /\ IdleSel /\ IdleRW
    /\ the_type \in DOMAIN EncodedTypes
    /\ ft_val \in SUBSET SampleBits(the_type)
    /\ ft_enc = {}
    /\ pcF = "new"

\* <bit_set>_encode_field(bin, field, val) up to the validate assertion.
EncodeField ==
    /\ pcF = "new"
    /\ IF ~check(the_type, ft_val)
       THEN pcF' = "check" /\ UNCHANGED ft_enc
       ELSE /\ ft_enc' = encode(the_type, ft_val)
            /\ pcF' = IF FitsIn(ft_enc', EncodedTypes[the_type].num_bits)
                      THEN "encoded" ELSE "validate"
    /\ UNCHANGED <<the_type, ft_val>>
    /\ UNCHANGED <<disVars, bsVars, encVars, emVars, testVars, margeVars, regVars, mapVars, bitVars, grpVars, selVars, rwVars>>

NextFT == EncodeField

SpecFT == InitFT /\ [][NextFT]_vars

\* The value an encoded value stands for: the inverse an implementer
\* derives from the encode expression.
Recovered(t, e) ==
    CASE t = "uint2_pos_inc"  -> BitsOfByte(IntOf(e) + 1)
      [] t = "uint4_pos_wrap" -> IF e = {} THEN {4} ELSE e
      [] t = "offset31"       -> {b + 1 : b \in e}
      [] t = "uint6mul4"      -> {b + 2 : b \in e}

\* C28 as stated: every value that satisfies check fits in dec_bits bits,
\* its encoded value fits in num_bits bits, and the value can be recovered
\* from the encoded bits.
C28_CheckedValueFits ==
    pcF \in {"validate", "encoded"} =>
        /\ FitsIn(ft_val, EncodedTypes[the_type].dec_bits)
        /\ pcF = "encoded"
        /\ FitsIn(ft_enc, EncodedTypes[the_type].num_bits)
        /\ Recovered(the_type, ft_enc) = ft_val

\* C28, amended: the check of uint2_pos_inc and uint4_pos_wrap bounds the
\* value to dec_bits bits, the check of offset31 and uint6mul4 does not; for
\* each of the four types a value of dec_bits bits that satisfies check is
\* encoded to a value that fits in num_bits bits and from which it can be
\* recovered, and a value of more bits that satisfies check fails the
\* validate assertion.
C28_ValueOfDecBitsFits ==
    pcF \in {"validate", "encoded"} =>
        /\ the_type \in {"uint2_pos_inc", "uint4_pos_wrap"} =>
              FitsIn(ft_val, EncodedTypes[the_type].dec_bits)
        /\ FitsIn(ft_val, EncodedTypes[the_type].dec_bits) =>
              /\ pcF = "encoded"
              /\ FitsIn(ft_enc, EncodedTypes[the_type].num_bits)
              /\ Recovered(the_type, ft_enc) = ft_val
        /\ ~FitsIn(ft_val, EncodedTypes[the_type].dec_bits) => pcF = "validate"

\* C28: 16 encoded as uint4_pos_wrap: the encoded value is 0.
C28_Witness ==
    /\ pcF = "encoded"
    /\ the_type = "uint4_pos_wrap"
    /\ ft_val = {4}
    /\ ft_enc = {}

\* C28: the largest offset31 value encoded: 2^32 - 2 becomes 2^31 - 1.
C28_WitnessOffset ==
    /\ pcF = "encoded"
    /\ the_type = "offset31"
    /\ ft_val = {1, 30, 31}
    /\ ft_enc = {0, 29, 30}

\* ---------------------------------------------------------------------
\* bin/pick/core.py: AsyncRWLock.  Tasks of one asyncio event loop run one
\* at a time and switch only where an await suspends, so every action
\* below runs from one suspension point of a task to its next one.
\* ---------------------------------------------------------------------

NumTasks == 3

\* How many read sections may be left by an exception in one run.
MaxRaises == 1

Tasks == 1..NumTasks

\* asyncio.Lock.acquire(): the test of its fast path, which takes the lock
\* without suspending only when it is free and no task is queued for it.
lock_is_free(l) == ~l.locked /\ l.waiters = <<>>

\* asyncio.Lock.acquire(): taken at once, or the task queues and suspends.
acquire(l, t) ==
    IF lock_is_free(l)
    THEN [l EXCEPT !.locked = TRUE]
    ELSE [l EXCEPT !.waiters = Append(@, t)]

\* asyncio.Lock.release(): the lock is free again and the future of the
\* first queued task is completed; that task takes the lock when it runs.
release(l) ==
    [l EXCEPT !.locked = FALSE, !.woken = (l.waiters # <<>>)]

\* asyncio.Lock.acquire() of a queued task, resumed after its future
\* completed: it leaves the queue and takes the lock.
resumed(l) ==
    [l EXCEPT !.locked = TRUE, !.waiters = Tail(@), !.woken = FALSE]

\* Task t is the queued task whose future release() completed.
is_woken(l, t) == l.woken /\ l.waiters # <<>> /\ Head(l.waiters) = t

InitRW ==
    /\ IdleDis /\ IdleBS /\ IdleEnc /\ IdleEM /\ IdleTest
    /\ IdleMarge /\ IdleReg /\ IdleMap /\ IdleBits /\ IdleGrp /\ IdleSel /\ IdleFT
    /\ readers = 0
    /\ global_lock = [locked |-> FALSE, waiters |-> <<>>, woken |-> FALSE]
    /\ read_lock = [locked |-> FALSE, waiters |-> <<>>, woken |-> FALSE]
    /\ tpc = [t \in Tasks |-> "idle"]

RWUnchanged ==
    UNCHANGED <<disVars, bsVars, encVars, emVars, testVars, margeVars, regVars, mapVars, bitVars, grpVars, selVars, ftVars>>

\* read(), holding read_lock (rl): the counter goes up, the first reader
\* takes global_lock or suspends for it with read_lock still held, and
\* every other path releases read_lock and reaches the yield.
read_counted(t, rl) ==
    /\ readers' = readers + 1
    /\ IF readers + 1 = 1 /\ ~lock_is_free(global_lock)
       THEN /\ global_lock' = acquire(global_lock, t)
            /\ read_lock' = rl
            /\ tpc' = [tpc EXCEPT ![t] = "read_wait_global"]
       ELSE /\ global_lock' = IF readers + 1 = 1
                              THEN acquire(global_lock, t)
                              ELSE global_lock
            /\ read_lock' = release(rl)
            /\ tpc' = [tpc EXCEPT ![t] = "reading"]

\* read(), after the yield and holding read_lock (rl): the counter goes
\* down, the last reader releases global_lock, read_lock is released.
read_uncounted(t, rl) ==
    /\ readers' = readers - 1
    /\ global_lock' = IF readers - 1 = 0 THEN release(global_lock) ELSE global_lock
    /\ read_lock' = release(rl)
    /\ tpc' = [tpc EXCEPT ![t] = "idle"]

\* async with lock.read(): up to the first suspension.
ReadEnter(t) ==
    /\ tpc[t] = "idle"
    /\ IF lock_is_free(read_lock)
       THEN read_counted(t, acquire(read_lock, t))
       ELSE /\ read_lock' = acquire(read_lock, t)
            /\ tpc' = [tpc EXCEPT ![t] = "read_wait_lock"]
            /\ UNCHANGED <<readers, global_lock>>
    /\ RWUnchanged

\* A task queued for read_lock on the way in is resumed.
ReadLockGranted(t) ==
    /\ tpc[t] = "read_wait_lock"
    /\ is_woken(read_lock, t)
    /\ read_counted(t, resumed(read_lock))
    /\ RWUnchanged

\* The first reader, queued for global_lock, is resumed.
ReadGlobalGranted(t) ==
    /\ tpc[t] = "read_wait_global"
    /\ is_woken(global_lock, t)
    /\ global_lock' = resumed(global_lock)
    /\ read_lock' = release(read_lock)
    /\ tpc' = [tpc EXCEPT ![t] = "reading"]
    /\ UNCHANGED readers
    /\ RWUnchanged

\* The body of the with statement ends: read() goes on after its yield.
ReadExit(t) ==
    /\ tpc[t] = "reading"
    /\ IF lock_is_free(read_lock)
       THEN read_uncounted(t, acquire(read_lock, t))
       ELSE /\ read_lock' = acquire(read_lock, t)
            /\ tpc' = [tpc EXCEPT ![t] = "exit_wait_lock"]
            /\ UNCHANGED <<readers, global_lock>>
    /\ RWUnchanged

\* A task queued for read_lock on the way out is resumed.
ReadExitGranted(t) ==
    /\ tpc[t] = "exit_wait_lock"
    /\ is_woken(read_lock, t)
    /\ read_uncounted(t, resumed(read_lock))
    /\ RWUnchanged

\* Tasks that read() has counted and not yet uncounted.
Counted == {t \in Tasks : tpc[t] \in {"read_wait_global", "reading", "exit_wait_lock"}}

\* The body of the with statement raises (the assert of resolve_nomination,
\* a failing create_subprocess_exec): the exception is thrown into read()
\* at its yield, which no try statement encloses, so read() ends there.
ReadRaise(t) ==
    /\ tpc[t] = "reading"
    /\ readers - Cardinality(Counted) < MaxRaises
    /\ tpc' = [tpc EXCEPT ![t] = "idle"]
    /\ UNCHANGED <<readers, global_lock, read_lock>>
    /\ RWUnchanged

\* async with lock.write(): up to the first suspension.
WriteEnter(t) ==
    /\ tpc[t] = "idle"
    /\ global_lock' = acquire(global_lock, t)
    /\ tpc' = [tpc EXCEPT ![t] = IF lock_is_free(global_lock)
                                 THEN "writing" ELSE "write_wait_global"]
    /\ UNCHANGED <<readers, read_lock>>
    /\ RWUnchanged

\* A writer queued for global_lock is resumed.
WriteGlobalGranted(t) ==
    /\ tpc[t] = "write_wait_global"
    /\ is_woken(global_lock, t)
    /\ global_lock' = resumed(global_lock)
    /\ tpc' = [tpc EXCEPT ![t] = "writing"]
    /\ UNCHANGED <<readers, read_lock>>
    /\ RWUnchanged

\* The body of the with statement ends, by its last statement, a return
\* (commit_state) or an exception: write() leaves its async with.
WriteExit(t) ==
    /\ tpc[t] = "writing"
    /\ global_lock' = release(global_lock)
    /\ tpc' = [tpc EXCEPT ![t] = "idle"]
    /\ UNCHANGED <<readers, read_lock>>
    /\ RWUnchanged

NextRW ==
    \E t \in Tasks :
        \/ ReadEnter(t)
        \/ ReadLockGranted(t)
        \/ ReadGlobalGranted(t)
        \/ ReadExit(t)
        \/ ReadExitGranted(t)
        \/ ReadRaise(t)
        \/ WriteEnter(t)
        \/ WriteGlobalGranted(t)
        \/ WriteExit(t)

SpecRW == InitRW /\ [][NextRW]_vars

\* Tasks inside a read section: past the yield of read(), the code after
\* the yield not finished.
InRead == {t \in Tasks : tpc[t] \in {"reading", "exit_wait_lock"}}

\* Tasks inside a write section.
InWrite == {t \in Tasks : tpc[t] = "writing"}

\* No task is inside write() while another task is inside write() or read().
WritersExclusive == \A t \in InWrite : InWrite \union InRead = {t}

\* The global lock is held whenever a task is inside a section.
SectionsHoldGlobalLock == (InRead # {} \/ InWrite # {}) => global_lock.locked

\* Two tasks are inside read() at once.
TwoReadersInside == Cardinality(InRead) >= 2

\* A read section was left by an exception: no task is inside a section
\* and none waits for one, yet the counter and the global lock stay taken.
LeakedReader ==
    /\ \A t \in Tasks : tpc[t] = "idle"
    /\ readers = 1
    /\ global_lock.locked

\* C30: no task is inside write() while another task is inside write() or
\* read(); readers is never negative and always equals the number of tasks
\* that entered a read section and have not left it; the global lock is
\* held exactly while readers > 0 or a writer is inside.
C30_WritersExclusiveReadersCounted ==
    /\ \A t \in InWrite : InWrite \union InRead = {t}
    /\ readers >= 0
    /\ readers = Cardinality(InRead)
    /\ global_lock.locked <=> (readers > 0 \/ InWrite # {})

====
